---- MODULE Spec2Model ----
(***************************************************************************)
(* ZAR card game: the rules engine (server/gameLogic.ts, server/deck.ts)   *)
(* and the room handlers that drive it (server/index.ts).                  *)
(*                                                                         *)
(* A card is identified by the id buildDeck gives it (1..62); CardOf maps  *)
(* an id to the immutable card record.  Hands and piles hold ids.          *)
(* Absent optional fields (undefined in the source) are None.              *)
(***************************************************************************)
EXTENDS Integers, Sequences, FiniteSets, TLC

VARIABLES state, timers, last, steps

vars == <<state, timers, last, steps>>

\* ---------------------------------------------------------------- bounds

\* Largest number of seated players explored.
MaxPlayers == 4

\* Number of handler executions explored after a round has started.
MaxSteps == 3

\* Number of distinct outcomes of shuffle() explored.
NumShuffles == 2

\* Largest steps argument given to advanceTurn.
MaxAdvance == 3

\* Largest count given to drawCards.
MaxDraw == 4

\* ------------------------------------------------------------ deck model

None == "none"

COLORS == <<"yellow", "blue", "red">>

SYMBOLS == <<"galaxy", "moon", "cloud", "sun", "star", "lightning">>

COMMANDS == <<"wasp", "frog", "crab">>

POWERS == <<"dragon", "peacock">>

NumBasic == 36

NumCommand == 18

NumPower == 8

DeckSize == NumBasic + NumCommand + NumPower

BasicPoints == 5

CommandPoints == 15

PowerPoints == 25

DefaultTargetScore == 50

DeckIds == 1..DeckSize

\* The card buildDeck creates with uid() = id: the three nested loops push
\* two copies per (symbol, color), then per (command, color), then per
\* (power, pair).
cardRecord(id) ==
  IF id <= NumBasic THEN
    [id |-> id, kind |-> "basic",
     color |-> COLORS[(((id - 1) \div 2) % 3) + 1],
     symbol |-> SYMBOLS[((id - 1) \div 6) + 1],
     command |-> None, power |-> None, pair |-> 0, points |-> BasicPoints]
  ELSE IF id <= NumBasic + NumCommand THEN
    [id |-> id, kind |-> "command",
     color |-> COLORS[(((id - NumBasic - 1) \div 2) % 3) + 1],
     symbol |-> None,
     command |-> COMMANDS[((id - NumBasic - 1) \div 6) + 1],
     power |-> None, pair |-> 0, points |-> CommandPoints]
  ELSE
    [id |-> id, kind |-> "power", color |-> None, symbol |-> None,
     command |-> None,
     power |-> POWERS[((id - NumBasic - NumCommand - 1) \div 4) + 1],
     pair |-> (((id - NumBasic - NumCommand - 1) \div 2) % 2) + 1,
     points |-> PowerPoints]

Cards == [id \in DeckIds |-> cardRecord(id)]

CardOf(id) == Cards[id]

\* The cards in creation order, before the shuffle.
buildCards == [i \in 1..DeckSize |-> i]

Reverse(arr) == [i \in 1..Len(arr) |-> arr[Len(arr) + 1 - i]]

\* Out-riffle: first half and second half interleaved.
Riffle(arr) ==
  LET n == Len(arr)
      h == (n + 1) \div 2
  IN [i \in 1..n |-> IF i % 2 = 1 THEN arr[(i + 1) \div 2] ELSE arr[h + (i \div 2)]]

Rotate(arr, r) ==
  LET n == Len(arr)
  IN [i \in 1..n |-> arr[((i - 1 + r) % n) + 1]]

\* shuffle returns a new array holding some permutation of arr (Fisher-Yates
\* driven by Math.random).  The outcome is a choice k among fixed
\* permutations; every one is a possible result of the source's shuffle.
shuffle(arr, k) ==
  IF Len(arr) <= 1 THEN arr
  ELSE IF k = 1 THEN Riffle(Rotate(arr, 9 % Len(arr)))
  ELSE IF k = 2 THEN Reverse(arr)
  ELSE IF k = 3 THEN Riffle(Reverse(arr))
  ELSE Rotate(arr, k % Len(arr))

buildDeck(k) == shuffle(buildCards, k)

RECURSIVE SumPoints(_)
SumPoints(hand) ==
  IF hand = <<>> THEN 0 ELSE CardOf(Head(hand)).points + SumPoints(Tail(hand))

calcHandScore(hand) == SumPoints(hand)

\* ---------------------------------------------------------- playability

Top(s) == CardOf(s.playPile[Len(s.playPile)])

\* A Power card accepted on any top card.
powerOnAny(card, top) == TRUE

\* if (card.kind === 'power') { ... }: a Dragon goes on anything but a
\* Peacock, a Peacock on anything but a Dragon.
powerOnTop(card, top) ==
  IF card.power = "dragon" THEN top.kind # "power" \/ top.power = "dragon"
  ELSE top.kind # "power" \/ top.power = "peacock"

\* After a declaration: the declared symbol (or another Dragon), the declared
\* colour (or another Peacock).
afterSymbol(card, s) ==
  IF card.kind = "power" /\ card.power = "dragon" THEN TRUE
  ELSE card.symbol = s.declaredSymbol

afterColor(card, s) ==
  IF card.kind = "power" /\ card.power = "peacock" THEN TRUE
  ELSE card.color = s.declaredColor

\* Normal play without the same-command rule.
normalPlayNoCommand(card, top) ==
  IF card.color # None /\ top.color # None /\ card.color = top.color THEN TRUE
  ELSE IF card.symbol # None /\ top.symbol # None /\ card.symbol = top.symbol THEN TRUE
  ELSE FALSE

\* Normal play: same colour, same symbol or same command as the top card.
normalPlay(card, top) ==
  IF card.color # None /\ top.color # None /\ card.color = top.color THEN TRUE
  ELSE IF card.symbol # None /\ top.symbol # None /\ card.symbol = top.symbol THEN TRUE
  ELSE IF card.command # None /\ top.command # None /\ card.command = top.command THEN TRUE
  ELSE FALSE

\* canPlay without the pending-penalty rule.
canPlayNoPenalty(card, s) ==
  IF s.playPile = <<>> THEN TRUE
  ELSE IF card.kind = "power" THEN powerOnTop(card, Top(s))
  ELSE IF s.declaredSymbol # None /\ s.declaredColor = None THEN afterSymbol(card, s)
  ELSE IF s.declaredColor # None /\ s.declaredSymbol = None THEN afterColor(card, s)
  ELSE normalPlay(card, Top(s))

\* canPlay accepting any Command card under a pending penalty.
canPlayAnyCommand(card, s) ==
  IF s.playPile = <<>> THEN TRUE
  ELSE IF s.pendingDrawCount > 0
    THEN card.kind = "command"
  ELSE IF card.kind = "power" THEN powerOnTop(card, Top(s))
  ELSE IF s.declaredSymbol # None /\ s.declaredColor = None THEN afterSymbol(card, s)
  ELSE IF s.declaredColor # None /\ s.declaredSymbol = None THEN afterColor(card, s)
  ELSE normalPlay(card, Top(s))

canPlay(card, s) ==
  IF s.playPile = <<>> THEN TRUE
  ELSE IF s.pendingDrawCount > 0
    THEN card.kind = "command" /\ card.command = "wasp"
  ELSE IF card.kind = "power" THEN powerOnTop(card, Top(s))
  ELSE IF s.declaredSymbol # None /\ s.declaredColor = None THEN afterSymbol(card, s)
  ELSE IF s.declaredColor # None /\ s.declaredSymbol = None THEN afterColor(card, s)
  ELSE normalPlay(card, Top(s))

\* isMatch comparing the colours alone.
isMatchSameColor(a, b) ==
  a.color = b.color

\* isMatch comparing Power cards by power alone.
isMatchAnyPair(a, b) ==
  IF a.kind = "power" /\ b.kind = "power"
    THEN a.power = b.power
  ELSE IF a.kind # "power" /\ b.kind # "power"
    THEN IF a.color # b.color THEN FALSE
         ELSE IF a.symbol # None /\ b.symbol # None THEN a.symbol = b.symbol
         ELSE IF a.command # None /\ b.command # None THEN a.command = b.command
         ELSE FALSE
  ELSE FALSE

isMatch(a, b) ==
  IF a.kind = "power" /\ b.kind = "power"
    THEN a.power = b.power /\ a.pair = b.pair
  ELSE IF a.kind # "power" /\ b.kind # "power"
    THEN IF a.color # b.color THEN FALSE
         ELSE IF a.symbol # None /\ b.symbol # None THEN a.symbol = b.symbol
         ELSE IF a.command # None /\ b.command # None THEN a.command = b.command
         ELSE FALSE
  ELSE FALSE

isDouble(card1, card2) == isMatch(card1, card2)

\* ------------------------------------------------------------ game setup

Null == 0

Min(a, b) == IF a < b THEN a ELSE b

Max(a, b) == IF a > b THEN a ELSE b

NumPlayers(s) == Len(s.players)

\* 1-based position in s.players of the player with this id, 0 if none
\* (players.findIndex / players.find).
IndexOfPlayer(s, playerId) ==
  IF \E i \in 1..Len(s.players) : s.players[i].id = playerId
    THEN CHOOSE i \in 1..Len(s.players) :
           /\ s.players[i].id = playerId
           /\ \A j \in 1..(i - 1) : s.players[j].id # playerId
    ELSE 0

SubSeqFrom(arr, from) == SubSeq(arr, from, Len(arr))

\* while (topIdx < deck.length && deck[topIdx].kind === 'power') topIdx++
\* (positions are 1-based here; Len(deck) + 1 stands for deck.length).
RECURSIVE SkipPower(_, _)
SkipPower(deck, pos) ==
  IF pos <= Len(deck) /\ CardOf(deck[pos]).kind = "power"
    THEN SkipPower(deck, pos + 1)
    ELSE pos

handSizeFor(numPlayers) == Max(3, Min(7, 10 - numPlayers))

\* A round started with whatever card follows the dealt ones on the discard
\* pile.
startRoundNoSkip(s, k) ==
  LET deck == buildDeck(k)
      n == NumPlayers(s)
      handSize == handSizeFor(n)
      idx == handSize * n
  IN [s EXCEPT
        !.phase = "playing",
        !.players = [j \in 1..n |->
                       [s.players[j] EXCEPT
                          !.hand = [i \in 1..handSize |-> deck[(i - 1) * n + j]],
                          !.announcedLastCard = FALSE]],
        !.drawPile = SubSeqFrom(deck, idx + 2),
        !.playPile = <<deck[idx + 1]>>,
        !.currentPlayerIndex = 0,
        !.direction = "cw",
        !.pendingDrawCount = 0,
        !.declaredSymbol = None,
        !.declaredColor = None,
        !.waitingForDeclaration = FALSE,
        !.roundWinnerId = None,
        !.matchWindowOpen = FALSE]

startRound(s, k) ==
  LET deck == buildDeck(k)
      n == NumPlayers(s)
      handSize == handSizeFor(n)
      idx == handSize * n
      found == SkipPower(deck, idx + 1)
      topPos == IF found = Len(deck) + 1 THEN idx + 1 ELSE found
  IN [s EXCEPT
        !.phase = "playing",
        !.players = [j \in 1..n |->
                       [s.players[j] EXCEPT
                          !.hand = [i \in 1..handSize |-> deck[(i - 1) * n + j]],
                          !.announcedLastCard = FALSE]],
        !.drawPile = SubSeq(deck, idx + 1, topPos - 1) \o SubSeqFrom(deck, topPos + 1),
        !.playPile = <<deck[topPos]>>,
        !.currentPlayerIndex = 0,
        !.direction = "cw",
        !.pendingDrawCount = 0,
        !.declaredSymbol = None,
        !.declaredColor = None,
        !.waitingForDeclaration = FALSE,
        !.roundWinnerId = None,
        !.matchWindowOpen = FALSE]

\* ---------------------------------------------------------- turn actions

\* The loop of drawCards over (hand, drawPile, playPile): one iteration per
\* call, `left` iterations remaining; k is the outcome of the shuffle.
RECURSIVE drawLoop(_, _, _, _, _)
drawLoop(hand, drawPile, playPile, left, k) ==
  IF left = 0 THEN [hand |-> hand, drawPile |-> drawPile, playPile |-> playPile]
  ELSE
    LET refill == drawPile = <<>>
        top == IF playPile = <<>> THEN Null ELSE playPile[Len(playPile)]
        dp == IF refill
                THEN shuffle(SubSeq(playPile, 1, Len(playPile) - 1), k)
                ELSE drawPile
        pp == IF refill THEN <<top>> ELSE playPile
    IN IF dp = <<>>
         THEN [hand |-> hand, drawPile |-> dp, playPile |-> pp]
         ELSE drawLoop(Append(hand, Head(dp)), Tail(dp), pp, left - 1, k)

\* drawCards that stops when the draw pile is empty.
drawCardsNoRefill(s, playerId, count, k) ==
  LET i == IndexOfPlayer(s, playerId)
      take == Min(count, Len(s.drawPile))
  IN IF i = 0 THEN s
     ELSE [s EXCEPT !.players[i].hand = @ \o SubSeq(s.drawPile, 1, take),
                    !.drawPile = SubSeq(@, take + 1, Len(@))]

\* drawCards that shuffles the whole discard pile, top card included, under
\* a draw pile that runs short.
drawCardsTakeTop(s, playerId, count, k) ==
  LET i == IndexOfPlayer(s, playerId)
      short == Len(s.drawPile) < count
      dp == IF short THEN s.drawPile \o shuffle(s.playPile, k) ELSE s.drawPile
      take == Min(count, Len(dp))
  IN IF i = 0 THEN s
     ELSE [s EXCEPT !.players[i].hand = @ \o SubSeq(dp, 1, take),
                    !.drawPile = SubSeq(dp, take + 1, Len(dp)),
                    !.playPile = IF short THEN <<>> ELSE @]

drawCards(s, playerId, count, k) ==
  LET i == IndexOfPlayer(s, playerId)
  IN IF i = 0 THEN s
     ELSE LET r == drawLoop(s.players[i].hand, s.drawPile, s.playPile, count, k)
          IN [s EXCEPT !.players[i].hand = r.hand,
                       !.drawPile = r.drawPile,
                       !.playPile = r.playPile]

\* hand.findIndex(c => c.id === cardId), 1-based, 0 if absent.
IndexInHand(hand, cardId) ==
  IF \E i \in 1..Len(hand) : hand[i] = cardId
    THEN CHOOSE i \in 1..Len(hand) :
           hand[i] = cardId /\ \A j \in 1..(i - 1) : hand[j] # cardId
    ELSE 0

RemoveAt(arr, i) == SubSeq(arr, 1, i - 1) \o SubSeq(arr, i + 1, Len(arr))

\* removeFromHand that finds the card but leaves it in the hand.
removeFromHandKeep(s, playerId, cardId) ==
  LET p == IndexOfPlayer(s, playerId)
      card == IF p = 0 THEN Null
              ELSE IF IndexInHand(s.players[p].hand, cardId) = 0 THEN Null
              ELSE cardId
  IN [state |-> s, card |-> card]

\* Returns [state, card]; card is Null when the player or the card is absent.
removeFromHand(s, playerId, cardId) ==
  LET players == [j \in 1..Len(s.players) |->
                    IF s.players[j].id # playerId THEN s.players[j]
                    ELSE LET idx == IndexInHand(s.players[j].hand, cardId)
                         IN IF idx = 0 THEN s.players[j]
                            ELSE [s.players[j] EXCEPT !.hand = RemoveAt(@, idx)]]
      p == IndexOfPlayer(s, playerId)
      card == IF p = 0 THEN Null
              ELSE IF IndexInHand(s.players[p].hand, cardId) = 0 THEN Null
              ELSE cardId
  IN [state |-> [s EXCEPT !.players = players], card |-> card]

\* placeCard that leaves the declarations standing.
placeCardKeepDeclared(s, card) ==
  [s EXCEPT !.playPile = Append(@, card.id)]

placeCard(s, card) ==
  [s EXCEPT !.playPile = Append(@, card.id),
            !.declaredSymbol = None,
            !.declaredColor = None]

RECURSIVE stepIndex(_, _, _, _)
stepIndex(idx, direction, n, left) ==
  IF left = 0 THEN idx
  ELSE stepIndex(IF direction = "cw" THEN (idx + 1) % n ELSE (idx - 1 + n) % n,
                 direction, n, left - 1)

\* advanceTurn that steps clockwise whatever the direction.
advanceTurnClockwise(s, stepCount) ==
  [s EXCEPT !.currentPlayerIndex =
              stepIndex(s.currentPlayerIndex, "cw", NumPlayers(s), stepCount)]

advanceTurn(s, stepCount) ==
  [s EXCEPT !.currentPlayerIndex =
              stepIndex(s.currentPlayerIndex, s.direction, NumPlayers(s), stepCount)]

flip(direction) == IF direction = "cw" THEN "ccw" ELSE "cw"

\* applyPlay whose Crab advances before the direction is reversed.
applyPlayCrabLate(s, playerId, card) ==
  LET s1 == placeCard(s, card)
  IN IF card.kind = "basic" THEN advanceTurn(s1, 1)
     ELSE IF card.kind = "command" THEN
       IF card.command = "wasp"
         THEN advanceTurn([s1 EXCEPT !.pendingDrawCount = @ + 2], 1)
       ELSE IF card.command = "frog"
         THEN advanceTurn(s1, 2)
       ELSE IF card.command = "crab"
         THEN [advanceTurn(s1, 1) EXCEPT !.direction = flip(@)]
       ELSE s1
     ELSE IF card.kind = "power"
       THEN [s1 EXCEPT !.waitingForDeclaration = TRUE]
     ELSE advanceTurn(s1, 1)

applyPlay(s, playerId, card) ==
  LET s1 == placeCard(s, card)
  IN IF card.kind = "basic" THEN advanceTurn(s1, 1)
     ELSE IF card.kind = "command" THEN
       IF card.command = "wasp"
         THEN advanceTurn([s1 EXCEPT !.pendingDrawCount = @ + 2], 1)
       ELSE IF card.command = "frog"
         THEN advanceTurn(s1, 2)
       ELSE IF card.command = "crab"
         THEN advanceTurn([s1 EXCEPT !.direction = flip(@)], 1)
       ELSE s1
     ELSE IF card.kind = "power"
       THEN [s1 EXCEPT !.waitingForDeclaration = TRUE]
     ELSE advanceTurn(s1, 1)

\* applyDouble as two single plays one after the other.
applyDoubleTwice(s, playerId, card1, card2) ==
  applyPlay(applyPlay(s, playerId, card1), playerId, card2)

applyDouble(s, playerId, card1, card2) ==
  LET s2 == placeCard(placeCard(s, card1), card2)
  IN IF card2.kind = "command" THEN
       IF card2.command = "wasp"
         THEN advanceTurn([s2 EXCEPT !.pendingDrawCount = @ + 4], 1)
       ELSE IF card2.command = "frog"
         THEN advanceTurn(s2, 3)
       ELSE IF card2.command = "crab"
         THEN advanceTurn(s2, 1)
       ELSE s2
     ELSE IF card2.kind = "power"
       THEN [s2 EXCEPT !.waitingForDeclaration = TRUE]
     ELSE advanceTurn(s2, 1)

\* applyDragonDeclaration that leaves a declared colour standing.
applyDragonDeclarationKeep(s, symbol) ==
  advanceTurn([s EXCEPT !.declaredSymbol = symbol,
                        !.waitingForDeclaration = FALSE], 1)

applyDragonDeclaration(s, symbol) ==
  advanceTurn([s EXCEPT !.declaredSymbol = symbol,
                        !.declaredColor = None,
                        !.waitingForDeclaration = FALSE], 1)

applyPeacockDeclaration(s, color) ==
  advanceTurn([s EXCEPT !.declaredColor = color,
                        !.declaredSymbol = None,
                        !.waitingForDeclaration = FALSE], 1)

\* -------------------------------------------------------------- round end

\* players.find(p => p.hand.length === 0): 1-based position, 0 if none.
FirstEmptyHanded(s) ==
  IF \E i \in 1..Len(s.players) : s.players[i].hand = <<>>
    THEN CHOOSE i \in 1..Len(s.players) :
           /\ s.players[i].hand = <<>>
           /\ \A j \in 1..(i - 1) : s.players[j].hand # <<>>
    ELSE 0

\* checkRoundOver ending the game only above the target score.
checkRoundOverStrict(s) ==
  LET w == FirstEmptyHanded(s)
  IN IF w = 0 THEN s
     ELSE
       LET winnerId == s.players[w].id
           players == [j \in 1..Len(s.players) |->
                         [s.players[j] EXCEPT
                            !.score = @ + (IF s.players[j].id = winnerId THEN 0
                                           ELSE calcHandScore(s.players[j].hand))]]
           gameOver == \E j \in 1..Len(players) : players[j].score > s.targetScore
       IN [s EXCEPT !.players = players,
                    !.phase = IF gameOver THEN "game_over" ELSE "round_over",
                    !.roundWinnerId = winnerId]

\* A checkRoundOver that never ends the round.
checkRoundOverNever(s) ==
  s

checkRoundOver(s) ==
  LET w == FirstEmptyHanded(s)
  IN IF w = 0 THEN s
     ELSE
       LET winnerId == s.players[w].id
           players == [j \in 1..Len(s.players) |->
                         [s.players[j] EXCEPT
                            !.score = @ + (IF s.players[j].id = winnerId THEN 0
                                           ELSE calcHandScore(s.players[j].hand))]]
           gameOver == \E j \in 1..Len(players) : players[j].score >= s.targetScore
       IN [s EXCEPT !.players = players,
                    !.phase = IF gameOver THEN "game_over" ELSE "round_over",
                    !.roundWinnerId = winnerId]

\* ----------------------------------------------------------- view builder

\* A view that carries every hand.
handViewOpen(p, requestingPlayerId) == [present |-> TRUE, cards |-> p.hand]

\* hand: p.id === requestingPlayerId ? p.hand : undefined
handView(p, requestingPlayerId) ==
  IF p.id = requestingPlayerId
    THEN [present |-> TRUE, cards |-> p.hand]
    ELSE [present |-> FALSE, cards |-> <<>>]

buildClientState(s, requestingPlayerId) ==
  [phase |-> s.phase,
   players |-> [i \in 1..Len(s.players) |->
                  [id |-> s.players[i].id,
                   handCount |-> Len(s.players[i].hand),
                   hand |-> handView(s.players[i], requestingPlayerId),
                   score |-> s.players[i].score,
                   connected |-> s.players[i].connected,
                   announcedLastCard |-> s.players[i].announcedLastCard]],
   drawPileCount |-> Len(s.drawPile),
   topCard |-> IF s.playPile = <<>> THEN Null ELSE s.playPile[Len(s.playPile)],
   currentPlayerIndex |-> s.currentPlayerIndex,
   direction |-> s.direction,
   pendingDrawCount |-> s.pendingDrawCount,
   declaredSymbol |-> s.declaredSymbol,
   declaredColor |-> s.declaredColor,
   waitingForDeclaration |-> s.waitingForDeclaration,
   targetScore |-> s.targetScore,
   roundWinnerId |-> s.roundWinnerId,
   matchWindowOpen |-> s.matchWindowOpen]

\* buildClientState(room.state, 'spectator'): an id no player has.
Spectator == Null

\* A player takes turns while connected or a bot.
isActive(p) == p.connected \/ p.isBot

\* One step in the current direction, then further single steps while the
\* player reached is inactive (at most one full circle); a new turn begins,
\* so drawnThisTurn is reset.
RECURSIVE skipInactive(_, _, _)
skipInactive(s, idx, tries) ==
  IF tries = 0 \/ isActive(s.players[idx + 1]) THEN idx
  ELSE skipInactive(s, stepIndex(idx, s.direction, NumPlayers(s), 1), tries - 1)

advanceTurnSkippingInactive(s) ==
  [s EXCEPT !.currentPlayerIndex =
              skipInactive(s, stepIndex(s.currentPlayerIndex, s.direction,
                                        NumPlayers(s), 1), NumPlayers(s)),
            !.drawnThisTurn = FALSE]

\* ------------------------------------------------------------------ room

HostId == 1

Current(s) == s.players[s.currentPlayerIndex + 1]

Seated(s) == {s.players[i].id : i \in 1..Len(s.players)}

HandOf(s, playerId) == s.players[IndexOfPlayer(s, playerId)].hand

HandSet(s, playerId) == {HandOf(s, playerId)[i] : i \in 1..Len(HandOf(s, playerId))}

InHand(s, playerId, cardId) == IndexInHand(HandOf(s, playerId), cardId) # 0

newPlayer(id) ==
  [id |-> id, hand |-> <<>>, score |-> 0, connected |-> TRUE,
   announcedLastCard |-> FALSE, isBot |-> FALSE]

\* create_room followed by n - 1 join_room in the lobby.
lobbyState(n, targetScore) ==
  [phase |-> "lobby",
   players |-> [i \in 1..n |-> newPlayer(i)],
   drawPile |-> <<>>,
   playPile |-> <<>>,
   currentPlayerIndex |-> 0,
   direction |-> "cw",
   pendingDrawCount |-> 0,
   declaredSymbol |-> None,
   declaredColor |-> None,
   waitingForDeclaration |-> FALSE,
   drawnThisTurn |-> FALSE,
   targetScore |-> targetScore,
   roundWinnerId |-> None,
   matchWindowOpen |-> FALSE]

\* matchTimers holds at most one handle per room (registered); a timeout
\* whose handle was overwritten in the map is still pending (orphans).
\* No timeout pending: neither of a match window nor of a bot turn.
NoTimers == [registered |-> FALSE, orphans |-> 0, bots |-> 0]

Room(s, tm) == [state |-> s, timers |-> tm]

\* openMatchWindow: the window opens and a new timeout is registered.
openMatchWindow(room) ==
  [state |-> [room.state EXCEPT !.matchWindowOpen = TRUE],
   timers |-> [registered |-> TRUE,
               orphans |-> room.timers.orphans
                             + (IF room.timers.registered THEN 1 ELSE 0),
               bots |-> room.timers.bots]]

\* clearTimeout(matchTimers.get(roomId)); matchTimers.delete(roomId)
clearMatchTimer(tm) == [tm EXCEPT !.registered = FALSE]

\* setTimeout(() => executeBotTurn(roomId), ...): one more bot turn pending.
botTimer(tm) == [tm EXCEPT !.bots = @ + 1]

\* A server that never schedules a bot turn.
scheduleBotTurnNever(room) ==
  room

\* scheduleBotTurnIfNeeded: in a round in play whose current player is a
\* bot, a bot turn is scheduled.
scheduleBotTurnIfNeeded(room) ==
  LET s == room.state
      cur == s.currentPlayerIndex
  IN IF s.phase = "playing" /\ cur >= 0 /\ cur < Len(s.players)
          /\ s.players[cur + 1].isBot
       THEN Room(s, botTimer(room.timers))
       ELSE room

\* closeMatchWindow: timer cleared, window closed, then checkRoundOver and
\* scheduleBotTurnIfNeeded.
closeMatchWindow(room) ==
  scheduleBotTurnIfNeeded(
    [state |-> checkRoundOver([room.state EXCEPT !.matchWindowOpen = FALSE]),
     timers |-> clearMatchTimer(room.timers)])

\* The shuffle outcomes that can make a difference when count cards are drawn.
ShuffleChoices(s, count) ==
  IF Len(s.drawPile) < count /\ Len(s.playPile) > 2 THEN 1..NumShuffles ELSE {1}

\* ---------------------------------------------------------------- handlers
\* For each socket handler: XOk is the conjunction of the conditions under
\* which the handler gets past its early returns, X the room it leaves.

\* start_game: host only, at least two players; with fewer than four the
\* host is only offered bots and the room is unchanged.
startGameOk(s, pid) == pid = HostId /\ NumPlayers(s) >= 4

startGame(room, pid, k) ==
  scheduleBotTurnIfNeeded(Room(startRound(room.state, k), room.timers))

botPlayer(num) ==
  [id |-> 100 + num, hand |-> <<>>, score |-> 0, connected |-> TRUE,
   announcedLastCard |-> FALSE, isBot |-> TRUE]

withBots(s) ==
  LET botsNeeded == 4 - NumPlayers(s)
      have == Cardinality({i \in 1..Len(s.players) : s.players[i].isBot})
  IN IF botsNeeded <= 0 THEN s
     ELSE [s EXCEPT !.players = @ \o [i \in 1..botsNeeded |-> botPlayer(have + i)]]

\* confirm_bots: host only, lobby only; optionally fills the table with bots.
confirmBotsOk(s, pid, confirm) ==
  /\ pid = HostId
  /\ s.phase = "lobby"
  /\ NumPlayers(IF confirm THEN withBots(s) ELSE s) >= 2

confirmBots(room, pid, confirm, k) ==
  scheduleBotTurnIfNeeded(
    Room(startRound(IF confirm THEN withBots(room.state) ELSE room.state, k),
         room.timers))

\* The play_card conditions without the canPlay test.
playCardOkAnyCard(s, pid, cardId) ==
  /\ pid \in Seated(s)
  /\ s.phase = "playing"
  /\ ~s.waitingForDeclaration
  /\ Current(s).id = pid
  /\ InHand(s, pid, cardId)

playCardOk(s, pid, cardId) ==
  /\ pid \in Seated(s)
  /\ s.phase = "playing"
  /\ ~s.waitingForDeclaration
  /\ Current(s).id = pid
  /\ InHand(s, pid, cardId)
  /\ canPlay(CardOf(cardId), s)

playCard(room, pid, cardId) ==
  LET r == removeFromHand(room.state, pid, cardId)
      s1 == applyPlay(r.state, pid, CardOf(r.card))
  IN IF r.card = Null THEN room
     ELSE IF HandOf(s1, pid) = <<>> THEN Room(checkRoundOver(s1), room.timers)
     ELSE IF ~s1.waitingForDeclaration THEN openMatchWindow(Room(s1, room.timers))
     ELSE Room(s1, room.timers)

\* The play_double conditions without "Cannot go out on a double".
playDoubleOkAnyHand(s, pid, cardId1, cardId2) ==
  /\ pid \in Seated(s)
  /\ s.phase = "playing"
  /\ ~s.waitingForDeclaration
  /\ Current(s).id = pid
  /\ InHand(s, pid, cardId1)
  /\ InHand(s, pid, cardId2)
  /\ isDouble(CardOf(cardId1), CardOf(cardId2))
  /\ canPlay(CardOf(cardId1), s)

playDoubleOk(s, pid, cardId1, cardId2) ==
  /\ pid \in Seated(s)
  /\ s.phase = "playing"
  /\ ~s.waitingForDeclaration
  /\ Current(s).id = pid
  /\ InHand(s, pid, cardId1)
  /\ InHand(s, pid, cardId2)
  /\ isDouble(CardOf(cardId1), CardOf(cardId2))
  /\ canPlay(CardOf(cardId1), s)
  /\ Len(HandOf(s, pid)) # 2

playDouble(room, pid, cardId1, cardId2) ==
  LET r1 == removeFromHand(room.state, pid, cardId1)
      r2 == removeFromHand(r1.state, pid, cardId2)
      s1 == applyDouble(r2.state, pid, CardOf(r1.card), CardOf(r2.card))
  IN IF r1.card = Null \/ r2.card = Null THEN room
     ELSE IF ~s1.waitingForDeclaration THEN openMatchWindow(Room(s1, room.timers))
     ELSE Room(s1, room.timers)

declareSymbolOk(s, pid) ==
  /\ pid \in Seated(s)
  /\ s.waitingForDeclaration
  /\ s.playPile # <<>>
  /\ Top(s).power = "dragon"

declareSymbol(room, pid, symbol) ==
  openMatchWindow(Room(applyDragonDeclaration(room.state, symbol), room.timers))

declareColorOk(s, pid) ==
  /\ pid \in Seated(s)
  /\ s.waitingForDeclaration
  /\ s.playPile # <<>>
  /\ Top(s).power = "peacock"

declareColor(room, pid, color) ==
  openMatchWindow(Room(applyPeacockDeclaration(room.state, color), room.timers))

drawCardOk(s, pid) ==
  /\ pid \in Seated(s)
  /\ s.phase = "playing"
  /\ ~s.waitingForDeclaration
  /\ Current(s).id = pid
  /\ s.pendingDrawCount > 0 \/ ~s.drawnThisTurn

drawCount(s) == IF s.pendingDrawCount > 0 THEN s.pendingDrawCount ELSE 1

drawCard(room, pid, k) ==
  LET s == room.state
  IN IF s.pendingDrawCount > 0
       THEN Room([drawCards(s, pid, s.pendingDrawCount, k)
                    EXCEPT !.pendingDrawCount = 0, !.drawnThisTurn = TRUE],
                 room.timers)
       ELSE Room([drawCards(s, pid, 1, k) EXCEPT !.drawnThisTurn = TRUE],
                 room.timers)

passOk(s, pid) ==
  /\ pid \in Seated(s)
  /\ s.phase = "playing"
  /\ ~s.waitingForDeclaration
  /\ Current(s).id = pid
  /\ s.pendingDrawCount = 0

pass(room, pid) ==
  scheduleBotTurnIfNeeded(Room(advanceTurnSkippingInactive(room.state), room.timers))

matchCardOk(s, pid, cardId) ==
  /\ pid \in Seated(s)
  /\ s.phase = "playing"
  /\ ~s.waitingForDeclaration
  /\ Current(s).id # pid
  /\ InHand(s, pid, cardId)
  /\ s.playPile # <<>>
  /\ isMatch(CardOf(cardId), Top(s))

\* A match that places the card and moves the turn without the penalty draw.
matchCardNoPenalty(room, pid, cardId, k) ==
  LET r == removeFromHand(room.state, pid, cardId)
      placed == [r.state EXCEPT
                   !.playPile = Append(@, r.card),
                   !.currentPlayerIndex = IndexOfPlayer(r.state, pid) - 1,
                   !.matchWindowOpen = FALSE]
  IN Room(checkRoundOver(advanceTurnSkippingInactive(placed)),
          clearMatchTimer(room.timers))

\* A match that treats a Wasp like any other card: penalty draw, card
\* placed, one step past the matcher.
matchCardPlain(room, pid, cardId, k) ==
  LET s == room.state
      r == removeFromHand(s, pid, cardId)
      drawn == drawCards(r.state, Current(s).id, 1, k)
      placed == [drawn EXCEPT
                   !.playPile = Append(@, r.card),
                   !.currentPlayerIndex = IndexOfPlayer(r.state, pid) - 1,
                   !.matchWindowOpen = FALSE]
  IN Room(checkRoundOver(advanceTurnSkippingInactive(placed)),
          clearMatchTimer(room.timers))

matchCard(room, pid, cardId, k) ==
  LET s == room.state
      tm == clearMatchTimer(room.timers)
      matchedPlayer == Current(s)
      r == removeFromHand(s, pid, cardId)
      matcherIndex == IndexOfPlayer(r.state, pid) - 1
  IN IF r.card = Null THEN Room(s, tm)
     ELSE IF CardOf(r.card).kind = "command" /\ CardOf(r.card).command = "wasp"
       THEN LET stateForMatch == [r.state EXCEPT
                                    !.currentPlayerIndex = matcherIndex,
                                    !.matchWindowOpen = FALSE]
                waspState == checkRoundOver(applyPlay(stateForMatch, pid, CardOf(r.card)))
            IN IF waspState.phase = "playing"
                 THEN openMatchWindow(Room(waspState, tm))
                 ELSE Room(waspState, tm)
       ELSE LET drawn == drawCards(r.state, matchedPlayer.id, 1, k)
                placed == [drawn EXCEPT
                             !.playPile = Append(@, r.card),
                             !.currentPlayerIndex = matcherIndex,
                             !.matchWindowOpen = FALSE]
            IN scheduleBotTurnIfNeeded(
                 Room(checkRoundOver(advanceTurnSkippingInactive(placed)), tm))

announceLastCardOk(s, pid) ==
  /\ pid \in Seated(s)
  /\ Len(HandOf(s, pid)) = 1

announceLastCard(room, pid) ==
  Room([room.state EXCEPT
          !.players[IndexOfPlayer(room.state, pid)].announcedLastCard = TRUE],
       room.timers)

challengeLastCardOk(s, pid, targetPlayerId) ==
  /\ pid \in Seated(s)
  /\ targetPlayerId \in Seated(s)
  /\ Len(HandOf(s, targetPlayerId)) = 1
  /\ ~s.players[IndexOfPlayer(s, targetPlayerId)].announcedLastCard

challengeLastCard(room, pid, targetPlayerId, k) ==
  Room(drawCards(room.state, targetPlayerId, 1, k), room.timers)

nextRoundOk(s, pid) ==
  /\ pid \in Seated(s)
  /\ pid = HostId
  /\ s.phase = "round_over"

nextRound(room, pid, k) ==
  scheduleBotTurnIfNeeded(Room(startRound(room.state, k), room.timers))

\* ------------------------------------------------------- rounds in progress
\* A round played move by move through the handlers above, so that every
\* room it yields is one the server reaches: on each turn the player to act
\* declares, takes a pending penalty, plays the first playable card when
\* holding more than `keep` cards, otherwise draws once and then passes.  A
\* match window opened by the move times out before the next move.

FirstPlayable(s, hand) ==
  IF \E i \in 1..Len(hand) : canPlay(CardOf(hand[i]), s)
    THEN hand[CHOOSE i \in 1..Len(hand) :
                /\ canPlay(CardOf(hand[i]), s)
                /\ \A j \in 1..(i - 1) : ~canPlay(CardOf(hand[j]), s)]
    ELSE Null

\* ------------------------------------------------------------------- bots

botAction(type, a, b) == [type |-> type, a |-> a, b |-> b]

\* randItem(arr): the index Math.floor(Math.random() * arr.length) picks,
\* r being the random draw.
randItem(arr, r) == ((r - 1) % Len(arr)) + 1

\* A bot that pairs up whatever the size of its hand.
preferDoubleAlways(hand) ==
  TRUE

\* if (bot.hand.length > 2)
preferDouble(hand) ==
  Len(hand) > 2

\* bot.hand.find(c => c.kind === 'command' && c.command === 'wasp')
firstWasp(hand) ==
  LET wasp(i) == CardOf(hand[i]).kind = "command" /\ CardOf(hand[i]).command = "wasp"
  IN IF \E i \in 1..Len(hand) : wasp(i)
       THEN hand[CHOOSE i \in 1..Len(hand) :
                   wasp(i) /\ \A j \in 1..(i - 1) : ~wasp(j)]
       ELSE Null

\* The nested loops over i < j: the first pair in the order of the loops
\* with isDouble(c1, c2) && canPlay(c1, state), or the empty tuple.
firstDouble(s, hand) ==
  LET hit(i, j) == /\ i < j
                   /\ isDouble(CardOf(hand[i]), CardOf(hand[j]))
                   /\ canPlay(CardOf(hand[i]), s)
      hits == {ij \in (1..Len(hand)) \X (1..Len(hand)) : hit(ij[1], ij[2])}
  IN IF hits = {} THEN <<>>
     ELSE CHOOSE ij \in hits :
            \A kl \in hits : ij[1] < kl[1] \/ (ij[1] = kl[1] /\ ij[2] <= kl[2])

computeBotAction(s, botId, r) ==
  IF IndexOfPlayer(s, botId) = 0 THEN botAction("pass", 0, 0)
  ELSE
    LET hand == HandOf(s, botId)
        wasp == firstWasp(hand)
        pair == firstDouble(s, hand)
        playable == FirstPlayable(s, hand)
    IN IF s.waitingForDeclaration THEN
         IF s.playPile # <<>> /\ Top(s).power = "dragon"
           THEN botAction("declare_symbol", randItem(SYMBOLS, r), 0)
           ELSE botAction("declare_color", randItem(COLORS, r), 0)
       ELSE IF s.pendingDrawCount > 0 THEN
         IF wasp # Null THEN botAction("play_card", wasp, 0)
         ELSE botAction("draw", 0, 0)
       ELSE IF preferDouble(hand) /\ pair # <<>> THEN
         botAction("play_double", hand[pair[1]], hand[pair[2]])
       ELSE IF playable # Null THEN botAction("play_card", playable, 0)
       ELSE IF s.drawnThisTurn THEN botAction("pass", 0, 0)
       ELSE botAction("draw", 0, 0)

\* The draws of Math.random() that matter: one per symbol while a
\* declaration is awaited.
BotDraws(s) == IF s.waitingForDeclaration THEN 1..Len(SYMBOLS) ELSE {1}

\* The bot's hand holds one card and it has not been announced: the server
\* announces it.
autoAnnounce(s, botId) ==
  LET i == IndexOfPlayer(s, botId)
  IN IF Len(s.players[i].hand) = 1 /\ ~s.players[i].announcedLastCard
       THEN [s EXCEPT !.players[i].announcedLastCard = TRUE]
       ELSE s

\* After a bot's play: the declaration is left to a bot turn 400 ms later,
\* otherwise the match window opens.
afterBotPlay(s, tm) ==
  IF s.waitingForDeclaration THEN Room(s, botTimer(tm))
  ELSE openMatchWindow(Room(s, tm))

\* executeBotTurn: nothing unless a round is in play and the current player
\* is a bot; otherwise the action computeBotAction chooses is carried out.
\* r is the random draw of a declaration, k the outcome of a shuffle.
executeBotTurn(room, r, k) ==
  LET s == room.state
      tm == room.timers
      cur == s.currentPlayerIndex
  IN IF s.phase # "playing" THEN room
     ELSE IF cur < 0 \/ cur >= Len(s.players) THEN room
     ELSE IF ~s.players[cur + 1].isBot THEN room
     ELSE
       LET bot == s.players[cur + 1]
           action == computeBotAction(s, bot.id, r)
       IN IF action.type = "declare_symbol"
            THEN openMatchWindow(Room(applyDragonDeclaration(s, SYMBOLS[action.a]), tm))
          ELSE IF action.type = "declare_color"
            THEN openMatchWindow(Room(applyPeacockDeclaration(s, COLORS[action.a]), tm))
          ELSE IF action.type = "play_card"
            THEN LET rm == removeFromHand(s, bot.id, action.a)
                     s1 == autoAnnounce(applyPlay(rm.state, bot.id, CardOf(rm.card)), bot.id)
                 IN IF rm.card = Null THEN room
                    ELSE IF HandOf(s1, bot.id) = <<>> THEN Room(checkRoundOver(s1), tm)
                    ELSE afterBotPlay(s1, tm)
          ELSE IF action.type = "play_double"
            THEN LET r1 == removeFromHand(s, bot.id, action.a)
                     r2 == removeFromHand(r1.state, bot.id, action.b)
                     s1 == applyDouble(r2.state, bot.id, CardOf(r1.card), CardOf(r2.card))
                 IN IF r1.card = Null \/ r2.card = Null THEN room
                    ELSE afterBotPlay(s1, tm)
          ELSE IF action.type = "draw"
            THEN IF s.pendingDrawCount > 0
                   THEN Room([drawCards(s, bot.id, s.pendingDrawCount, k)
                                EXCEPT !.pendingDrawCount = 0, !.drawnThisTurn = TRUE],
                             botTimer(tm))
                   ELSE LET s1 == [drawCards(s, bot.id, 1, k) EXCEPT !.drawnThisTurn = TRUE]
                            hand == HandOf(s1, bot.id)
                            drawnCard == IF hand = <<>> THEN Null ELSE hand[Len(hand)]
                        IN IF drawnCard # Null /\ canPlay(CardOf(drawnCard), s1)
                             THEN LET rm == removeFromHand(s1, bot.id, drawnCard)
                                  IN afterBotPlay(applyPlay(rm.state, bot.id, CardOf(rm.card)), tm)
                             ELSE scheduleBotTurnIfNeeded(
                                    Room(advanceTurnSkippingInactive(s1), tm))
          ELSE scheduleBotTurnIfNeeded(Room(advanceTurnSkippingInactive(s), tm))

simMove(room, keep) ==
  LET s == room.state
      pid == Current(s).id
      hand == HandOf(s, pid)
      card == FirstPlayable(s, hand)
  IN IF s.waitingForDeclaration
       THEN IF Top(s).power = "dragon"
              THEN declareSymbol(room, pid, SYMBOLS[1])
              ELSE declareColor(room, pid, COLORS[1])
     ELSE IF s.pendingDrawCount > 0 THEN drawCard(room, pid, 1)
     ELSE IF Len(hand) > keep /\ card # Null THEN playCard(room, pid, card)
     ELSE IF ~s.drawnThisTurn THEN drawCard(room, pid, 1)
     ELSE pass(room, pid)

simTimeout(room) == IF room.timers.registered THEN closeMatchWindow(room) ELSE room

MinHand(s) ==
  CHOOSE m \in {Len(s.players[i].hand) : i \in 1..Len(s.players)} :
    \A i \in 1..Len(s.players) : m <= Len(s.players[i].hand)

\* Moves are made until some hand is down to `hand` cards, the draw pile is
\* down to `draw` cards at the start of a turn, the round is over or `fuel`
\* moves have been made.
RECURSIVE simRound(_, _, _, _, _)
simRound(room, keep, hand, draw, fuel) ==
  IF \/ fuel = 0
     \/ room.state.phase # "playing"
     \/ MinHand(room.state) <= hand
     \/ Len(room.state.drawPile) <= draw /\ ~room.state.drawnThisTurn
    THEN room
    ELSE simRound(simTimeout(simMove(room, keep)), keep, hand, draw, fuel - 1)

\* Longest round played out to obtain a round in progress.
SimFuel == 120

started(n, k) == confirmBots(Room(lobbyState(n, DefaultTargetScore), NoTimers), HostId, FALSE, k)

\* Players shed cards until someone holds `hand` cards.
endgameRoom(n, k, hand) == simRound(started(n, k), 0, hand, 0 - 1, SimFuel)

\* Players keep three cards, so nobody goes out and the draw pile runs out
\* while the discard pile grows.
lowDrawRoom(n, k) == simRound(started(n, k), 3, 0, 0, SimFuel)

\* Players shed cards until the round is over (or the moves run out).
finishedRoom(n, k) == simRound(started(n, k), 0, 0 - 1, 0 - 1, SimFuel)

\* What a card does when played: Basic, the command, or Power.
TagOf(card) ==
  IF card.kind = "basic" THEN "basic"
  ELSE IF card.kind = "command" THEN card.command
  ELSE "power"

Tags == {"basic", "wasp", "frog", "crab", "power"}

\* A card of this tag is on top and a player other than the one to act holds
\* a card that matches it.
MatchChance(s, tag) ==
  /\ s.phase = "playing"
  /\ ~s.waitingForDeclaration
  /\ s.playPile # <<>>
  /\ TagOf(Top(s)) = tag
  /\ \E pid \in Seated(s) : \E c \in HandSet(s, pid) :
       pid # Current(s).id /\ isMatch(CardOf(c), Top(s))

\* Moves are made, each after the match window of the move before has timed
\* out, until the move just made leaves a chance to match a card of this
\* tag; the window that move opened is still open.
RECURSIVE simUntilMatch(_, _, _, _)
simUntilMatch(room, keep, tag, fuel) ==
  IF fuel = 0 \/ room.state.phase # "playing" \/ MatchChance(room.state, tag)
    THEN room
    ELSE simUntilMatch(simMove(simTimeout(room), keep), keep, tag, fuel - 1)

\* The rounds in which a chance to match a card of each tag comes up.
matchRooms(n, k) ==
  {r \in {simUntilMatch(started(n, k), 3, tag, SimFuel) : tag \in Tags} :
     \E tag \in Tags : MatchChance(r.state, tag)}

InitRooms ==
  {Room(lobbyState(n, DefaultTargetScore), NoTimers) : n \in 2..MaxPlayers}
  \cup {endgameRoom(n, 1, 1) : n \in 2..MaxPlayers}
  \cup {lowDrawRoom(n, 1) : n \in 2..MaxPlayers}
  \cup UNION {matchRooms(n, 1) : n \in 2..MaxPlayers}
  \cup {finishedRoom(n, 1) : n \in 2..MaxPlayers}

\* ------------------------------------------------------------ connections
\* A player's id stands for the player through successive sockets: on a
\* reconnect the code gives the player the new socket's id and moves hostId
\* along with it.  The grace timer of a player is pending exactly while the
\* player is seated with connected = false: disconnect starts it, reconnect
\* clears it, and its callback removes the player.

Online(s) == {s.players[i].id : i \in {j \in 1..Len(s.players) : s.players[j].connected}}

Offline(s) == Seated(s) \ Online(s)

disconnectOk(s, pid) ==
  /\ pid \in Online(s)
  /\ ~s.players[IndexOfPlayer(s, pid)].isBot
  /\ s.phase = "lobby" => pid # HostId

\* socket.on('disconnect'): the player is marked disconnected; in the lobby
\* the player is removed; in a round, if the turn is the player's, the
\* declaration awaited is made at random (r) or the turn moves on.
disconnect(room, pid, r) ==
  LET i == IndexOfPlayer(room.state, pid)
      s == [room.state EXCEPT !.players[i].connected = FALSE]
      top == IF s.playPile = <<>> THEN [power |-> None] ELSE Top(s)
  IN IF s.phase = "lobby"
       THEN Room([s EXCEPT !.players = RemoveAt(@, i)], room.timers)
     ELSE IF s.phase = "playing" /\ Current(s).id = pid
       THEN scheduleBotTurnIfNeeded(
              IF s.waitingForDeclaration /\ top.power = "dragon"
                THEN Room(applyDragonDeclaration(s, SYMBOLS[randItem(SYMBOLS, r)]),
                          room.timers)
              ELSE IF s.waitingForDeclaration /\ top.power = "peacock"
                THEN Room(applyPeacockDeclaration(s, COLORS[randItem(COLORS, r)]),
                          room.timers)
              ELSE Room(advanceTurnSkippingInactive(s), room.timers))
     ELSE Room(s, room.timers)

reconnectOk(s, pid) ==
  /\ s.phase # "lobby"
  /\ pid \in Offline(s)
  /\ ~s.players[IndexOfPlayer(s, pid)].isBot

\* join_room with the name of a disconnected player.
reconnect(room, pid) ==
  Room([room.state EXCEPT !.players[IndexOfPlayer(room.state, pid)].connected = TRUE],
       room.timers)

graceTimerOk(s, pid) == pid \in Offline(s)

\* The callback of the grace timer: the player is filtered out of players,
\* currentPlayerIndex is shifted, and a round in play with fewer than two
\* active players left is over.
graceTimer(room, pid) ==
  LET s == room.state
      removedIdx == IndexOfPlayer(s, pid) - 1
      newPlayers == RemoveAt(s.players, removedIdx + 1)
      cur == s.currentPlayerIndex
      newCurrentIdx == IF removedIdx < cur THEN cur - 1
                       ELSE IF removedIdx = cur THEN cur % Max(1, Len(newPlayers))
                       ELSE cur
      activePlayers == {j \in 1..Len(newPlayers) : isActive(newPlayers[j])}
      s1 == [s EXCEPT !.players = newPlayers, !.currentPlayerIndex = newCurrentIdx]
  IN scheduleBotTurnIfNeeded(
       Room(IF Cardinality(activePlayers) < 2 /\ s1.phase = "playing"
              THEN [s1 EXCEPT !.phase = "game_over"]
              ELSE s1,
            room.timers))

\* ----------------------------------------------------------------- actions

Op(name, p, a, b) == [op |-> name, p |-> p, a |-> a, b |-> b, res |-> FALSE]

InRound == steps < MaxSteps

Becomes(r, l) ==
  /\ state' = r.state
  /\ timers' = r.timers
  /\ last' = l
  /\ steps' = steps + 1

StartGame(pid) ==
  /\ InRound
  /\ startGameOk(state, pid)
  /\ \E k \in 1..NumShuffles :
       Becomes(startGame(Room(state, timers), pid, k), Op("start_game", pid, 0, 0))

ConfirmBots(pid, confirm) ==
  /\ InRound
  /\ confirmBotsOk(state, pid, confirm)
  /\ \E k \in 1..NumShuffles :
       Becomes(confirmBots(Room(state, timers), pid, confirm, k),
               Op("confirm_bots", pid, 0, 0))

PlayCard(pid, cardId) ==
  /\ InRound
  /\ playCardOk(state, pid, cardId)
  /\ Becomes(playCard(Room(state, timers), pid, cardId), Op("play_card", pid, cardId, 0))

PlayDouble(pid, cardId1, cardId2) ==
  /\ InRound
  /\ playDoubleOk(state, pid, cardId1, cardId2)
  /\ Becomes(playDouble(Room(state, timers), pid, cardId1, cardId2),
             Op("play_double", pid, cardId1, cardId2))

DeclareSymbol(pid, symbol) ==
  /\ InRound
  /\ declareSymbolOk(state, pid)
  /\ Becomes(declareSymbol(Room(state, timers), pid, symbol),
             Op("declare_symbol", pid, 0, 0))

DeclareColor(pid, color) ==
  /\ InRound
  /\ declareColorOk(state, pid)
  /\ Becomes(declareColor(Room(state, timers), pid, color),
             Op("declare_color", pid, 0, 0))

DrawCard(pid) ==
  /\ InRound
  /\ drawCardOk(state, pid)
  /\ \E k \in ShuffleChoices(state, drawCount(state)) :
       Becomes(drawCard(Room(state, timers), pid, k),
               Op("draw_card", pid, drawCount(state), Len(state.drawPile)))

Pass(pid) ==
  /\ InRound
  /\ passOk(state, pid)
  /\ Becomes(pass(Room(state, timers), pid), Op("pass", pid, 0, 0))

MatchCard(pid, cardId) ==
  /\ InRound
  /\ matchCardOk(state, pid, cardId)
  /\ \E k \in ShuffleChoices(state, 1) :
       Becomes(matchCard(Room(state, timers), pid, cardId, k),
               Op("match_card", pid, cardId, 0))

AnnounceLastCard(pid) ==
  /\ InRound
  /\ announceLastCardOk(state, pid)
  /\ Becomes(announceLastCard(Room(state, timers), pid),
             Op("announce_last_card", pid, 0, 0))

ChallengeLastCard(pid, targetPlayerId) ==
  /\ InRound
  /\ challengeLastCardOk(state, pid, targetPlayerId)
  /\ \E k \in ShuffleChoices(state, 1) :
       Becomes(challengeLastCard(Room(state, timers), pid, targetPlayerId, k),
               Op("challenge_last_card", pid, targetPlayerId, 0))

NextRound(pid) ==
  /\ InRound
  /\ nextRoundOk(state, pid)
  /\ \E k \in 1..NumShuffles :
       Becomes(nextRound(Room(state, timers), pid, k), Op("next_round", pid, 0, 0))

\* The timeout registered by the latest openMatchWindow fires.
MatchTimerFires ==
  /\ timers.registered
  /\ state' = closeMatchWindow(Room(state, timers)).state
  /\ timers' = closeMatchWindow(Room(state, timers)).timers
  /\ last' = Op("match_timer", 0, 0, 0)
  /\ UNCHANGED steps

\* A timeout whose handle was overwritten fires: closeMatchWindow clears
\* the handle now in the map.
OrphanTimerFires ==
  /\ timers.orphans > 0
  /\ state' = closeMatchWindow(Room(state, timers)).state
  /\ timers' = [closeMatchWindow(Room(state, timers)).timers
                  EXCEPT !.orphans = @ - 1]
  /\ last' = Op("orphan_timer", 0, 0, 0)
  /\ UNCHANGED steps

Init ==
  /\ \E r \in InitRooms : state = r.state /\ timers = r.timers
  /\ last = Op("init", 0, 0, 0)
  /\ steps = 0

Next ==
  \/ \E pid \in Online(state) : StartGame(pid)
  \/ \E pid \in Online(state) : ConfirmBots(pid, FALSE)
  \/ \E pid \in Online(state) : \E c \in HandSet(state, pid) : PlayCard(pid, c)
  \/ \E pid \in Online(state) : \E c1, c2 \in HandSet(state, pid) : PlayDouble(pid, c1, c2)
  \/ \E pid \in Online(state), sym \in 1..Len(SYMBOLS) : DeclareSymbol(pid, SYMBOLS[sym])
  \/ \E pid \in Online(state), col \in 1..Len(COLORS) : DeclareColor(pid, COLORS[col])
  \/ \E pid \in Online(state) : DrawCard(pid)
  \/ \E pid \in Online(state) : Pass(pid)
  \/ \E pid \in Online(state) : \E c \in HandSet(state, pid) : MatchCard(pid, c)
  \/ \E pid \in Online(state) : AnnounceLastCard(pid)
  \/ \E pid \in Online(state), target \in Seated(state) : ChallengeLastCard(pid, target)
  \/ \E pid \in Online(state) : NextRound(pid)
  \/ MatchTimerFires
  \/ OrphanTimerFires

Spec == Init /\ [][Next]_vars

\* ------------------------------------------- rooms with connections lost

Disconnect(pid) ==
  /\ InRound
  /\ disconnectOk(state, pid)
  /\ \E r \in (IF state.waitingForDeclaration /\ state.phase = "playing"
                  /\ Current(state).id = pid
               THEN 1..Len(SYMBOLS) ELSE {1}) :
       Becomes(disconnect(Room(state, timers), pid, r), Op("disconnect", pid, r, 0))

Reconnect(pid) ==
  /\ InRound
  /\ reconnectOk(state, pid)
  /\ Becomes(reconnect(Room(state, timers), pid), Op("reconnect", pid, 0, 0))

GraceTimerFires(pid) ==
  /\ InRound
  /\ graceTimerOk(state, pid)
  /\ Becomes(graceTimer(Room(state, timers), pid), Op("grace_timer", pid, 0, 0))

ConnNext ==
  \/ Next
  \/ \E pid \in Seated(state) : Disconnect(pid)
  \/ \E pid \in Seated(state) : Reconnect(pid)
  \/ \E pid \in Seated(state) : GraceTimerFires(pid)

SpecConn == Init /\ [][ConnNext]_vars

\* ------------------------------------------------------- rooms with bots

\* A timeout set for executeBotTurn expires.
BotTimerFires ==
  /\ timers.bots > 0
  /\ \E r \in BotDraws(state), k \in ShuffleChoices(state, drawCount(state)) :
       LET room == executeBotTurn(Room(state, [timers EXCEPT !.bots = @ - 1]), r, k)
       IN /\ state' = room.state
          /\ timers' = room.timers
          /\ last' = [Op("bot_turn", 0, r, k) EXCEPT !.res = state' # state]
  /\ UNCHANGED steps

\* confirm_bots with confirm = true in a lobby of n players.
startedWithBots(n, k) ==
  confirmBots(Room(lobbyState(n, DefaultTargetScore), NoTimers), HostId, TRUE, k)

\* A round with bots played on: a pending match-window timeout expires,
\* else a pending bot turn runs, else the human player to act moves.
RECURSIVE simBots(_, _)
simBots(room, fuel) ==
  IF fuel = 0 \/ room.state.phase # "playing" THEN room
  ELSE IF room.timers.registered THEN simBots(closeMatchWindow(room), fuel - 1)
  ELSE IF room.timers.bots > 0
    THEN simBots(executeBotTurn(Room(room.state, [room.timers EXCEPT !.bots = @ - 1]),
                                1, 1),
                 fuel - 1)
  ELSE simBots(simMove(room, 0), fuel - 1)

\* The round played on by laps of 25 moves.
RECURSIVE simBotsFar(_, _)
simBotsFar(room, laps) ==
  IF laps = 0 THEN room ELSE simBots(simBotsFar(room, laps - 1), 25)

\* How far the rounds with bots are played on before they are explored:
\* from the deal, in mid-round, and to a bot's last card.
BotLaps == {0, 1, 4}

botRooms ==
  {simBotsFar(startedWithBots(n, 1), laps) : n \in 2..(MaxPlayers - 1), laps \in BotLaps}

BotsInitRooms ==
  {Room(lobbyState(n, DefaultTargetScore), NoTimers) : n \in 2..(MaxPlayers - 1)}
  \cup botRooms
  \cup {finishedRoom(n, 1) : n \in 2..MaxPlayers}

BotsInit ==
  /\ \E r \in BotsInitRooms : state = r.state /\ timers = r.timers
  /\ last = Op("init", 0, 0, 0)
  /\ steps = 0

BotsNext ==
  \/ Next
  \/ \E pid \in Online(state) : ConfirmBots(pid, TRUE)
  \/ BotTimerFires

SpecBots == BotsInit /\ [][BotsNext]_vars

\* The timeouts expire: those of the match windows and those of the bots.
\* A pending bot turn can always run: BotTimerFires is enabled exactly when
\* timers.bots > 0.
BotTimerEnabled ==
  timers.bots > 0 =>
    \A r \in BotDraws(state), k \in ShuffleChoices(state, drawCount(state)) :
      executeBotTurn(Room(state, [timers EXCEPT !.bots = @ - 1]), r, k)
        # Room(state, timers)

\* WF_vars(BotTimerFires), with ENABLED <<BotTimerFires>>_vars written as
\* timers.bots > 0 (BotTimerEnabled): a setTimeout callback that stays
\* pending runs.
BotTimerFair ==
  []<>(timers.bots = 0) \/ []<><<BotTimerFires>>_vars

FairSpecBots ==
  /\ SpecBots
  /\ WF_vars(MatchTimerFires)
  /\ WF_vars(OrphanTimerFires)
  /\ BotTimerFair

\* ------------------------------------------------- the engine, call by call
\* The exported functions of gameLogic.ts applied once each to a game state
\* and to cards, as the unit tests do: the states are drawn from three
\* families that between them vary everything the functions read.

\* One card of every (kind, colour, symbol / command / power, pair).
TopChoices == {id \in DeckIds : id % 2 = 1}

\* The card lying under the top card of the discard pile: the second copy
\* of the blue galaxy.
UnderCard ==
  CHOOSE id \in DeckIds \ TopChoices :
    CardOf(id).color = COLORS[2] /\ CardOf(id).symbol = SYMBOLS[1]

\* The hand held at seat i.
UnitHand(i) ==
  IF i = 1 THEN <<6, 38>>
  ELSE IF i = 2 THEN <<8, 10>>
  ELSE IF i = 3 THEN <<56>>
  ELSE IF i = 4 THEN <<14, 16, 44>>
  ELSE <<20>>

\* Standing declarations: none, a symbol (after a Dragon), a colour (after a
\* Peacock).
DeclChoices ==
  {[symbol |-> None, color |-> None],
   [symbol |-> SYMBOLS[2], color |-> None],
   [symbol |-> None, color |-> COLORS[2]]}

PendingChoices == {0, 2}

\* Scores before the round ends, by seat.
ScoreChoices ==
  {[i \in 1..n |-> 0] : n \in {MaxPlayers}}
  \cup {[i \in 1..n |-> 20] : n \in {MaxPlayers}}
  \cup {[i \in 1..n |-> 40] : n \in {MaxPlayers}}
  \cup {[i \in 1..n |-> IF i % 2 = 1 THEN 45 ELSE 10] : n \in {MaxPlayers}}

unitState(n, hands, scores, top, cur, direction, pending, decl) ==
  [phase |-> "playing",
   players |-> [i \in 1..n |-> [newPlayer(i) EXCEPT !.hand = hands[i],
                                                    !.score = scores[i]]],
   drawPile |-> <<12, 18>>,
   playPile |-> <<UnderCard, top>>,
   currentPlayerIndex |-> cur,
   direction |-> direction,
   pendingDrawCount |-> pending,
   declaredSymbol |-> decl.symbol,
   declaredColor |-> decl.color,
   waitingForDeclaration |-> FALSE,
   drawnThisTurn |-> FALSE,
   targetScore |-> DefaultTargetScore,
   roundWinnerId |-> None,
   matchWindowOpen |-> FALSE]

AllHands == [i \in 1..MaxPlayers |-> UnitHand(i)]

NoScores == [i \in 1..MaxPlayers |-> 0]

NoDecl == [symbol |-> None, color |-> None]

\* Every top card under every penalty and declaration, two players.
TableStates ==
  {unitState(2, AllHands, NoScores, top, 0, "cw", pending, decl) :
     top \in TopChoices, pending \in PendingChoices, decl \in DeclChoices}

\* Every seating: number of players, player to act, direction, penalty.
SeatStates ==
  UNION {{unitState(n, AllHands, NoScores, 1, cur, direction, pending, NoDecl) :
            cur \in 0..(n - 1), direction \in {"cw", "ccw"},
            pending \in PendingChoices} : n \in 2..MaxPlayers}

\* Every seat gone out, under every score sheet.
ScoreStates ==
  UNION {{unitState(n, [AllHands EXCEPT ![w] = <<>>], scores, 1, 0, "cw", 0, NoDecl) :
            w \in 1..n, scores \in ScoreChoices} : n \in 2..MaxPlayers}

\* A Power card just played in every seating, under every declaration that
\* stood before.
DeclareStates ==
  UNION {{[unitState(n, AllHands, NoScores, top, cur, direction, 0, decl)
             EXCEPT !.waitingForDeclaration = TRUE] :
            cur \in 0..(n - 1), direction \in {"cw", "ccw"},
            top \in {id \in TopChoices : CardOf(id).kind = "power" /\ CardOf(id).pair = 1},
            decl \in DeclChoices} : n \in 2..MaxPlayers}

\* Draw piles of zero to two cards under discard piles of one to four.
PileStates ==
  {[unitState(2, AllHands, NoScores, 1, 0, "cw", pending, NoDecl)
      EXCEPT !.drawPile = drawPile, !.playPile = playPile] :
     pending \in PendingChoices,
     drawPile \in {<<>>, <<12>>, <<12, 18>>},
     playPile \in {<<1>>, <<UnderCard, 1>>, <<22, UnderCard, 1>>,
                   <<24, 22, UnderCard, 1>>}}

\* join_room: "Room is full (max 9 players)".
MaxSeats == 9

\* The shuffle outcome that leaves the first Power card right after the
\* cards dealt to two players (and the last one right after those dealt to
\* three).
DealCut == NumBasic + NumCommand - 2 * handSizeFor(2)

\* A finished round at a table of n: scores on the sheet, last cards
\* announced, direction reversed, a penalty and a declaration standing.
finishedTable(n) ==
  [startRound(lobbyState(n, DefaultTargetScore), 2) EXCEPT
     !.phase = "round_over",
     !.players = [i \in 1..n |-> [@[i] EXCEPT !.score = BasicPoints * i,
                                              !.announcedLastCard = (i % 2 = 1)]],
     !.currentPlayerIndex = 1,
     !.direction = "ccw",
     !.pendingDrawCount = 2,
     !.declaredColor = COLORS[1],
     !.waitingForDeclaration = TRUE,
     !.matchWindowOpen = TRUE,
     !.roundWinnerId = 1]

\* The states startRound is called in: a lobby (start_game, confirm_bots)
\* and a finished round (next_round), at every table size.
StartStates ==
  {lobbyState(n, DefaultTargetScore) : n \in 2..MaxSeats}
  \cup {finishedTable(n) : n \in 2..MaxSeats}

UnitStates ==
  TableStates \cup SeatStates \cup ScoreStates \cup DeclareStates \cup PileStates
  \cup StartStates

PileSet(s) == {s.playPile[i] : i \in 1..Len(s.playPile)}

\* The cards that are in no hand and in no pile: a card just taken out of a
\* hand by removeFromHand is one of these.
Loose(s) ==
  {c \in DeckIds :
     /\ c \notin PileSet(s)
     /\ \A i \in 1..Len(s.drawPile) : s.drawPile[i] # c
     /\ \A j \in 1..Len(s.players) : IndexInHand(s.players[j].hand, c) = 0}

\* Each run applies one function once to the state drawn.
Fresh == steps = 0

\* The handlers call the engine on a state only once a round has been dealt.
Dealt == state.phase # "lobby"

\* The inputs still to be tried: none once the function has been applied.
Once(S) == IF Fresh THEN S ELSE {}

Answers(l, res) ==
  /\ last' = [l EXCEPT !.res = res]
  /\ steps' = steps + 1
  /\ UNCHANGED <<state, timers>>

Yields(s, l) ==
  /\ state' = s
  /\ last' = l
  /\ steps' = steps + 1
  /\ UNCHANGED timers

UCanPlay(c) ==
  /\ Fresh
  /\ Dealt
  /\ Answers(Op("canPlay", 0, c, 0), canPlay(CardOf(c), state))

UIsMatch(a) ==
  /\ Fresh
  /\ Dealt
  /\ state.playPile # <<>>
  /\ Answers(Op("isMatch", 0, a, Top(state).id), isMatch(CardOf(a), Top(state)))

UApplyPlay(c) ==
  /\ Fresh
  /\ Dealt
  /\ Yields(applyPlay(state, Current(state).id, CardOf(c)),
            Op("applyPlay", Current(state).id, c, 0))

UApplyDouble(c1, c2) ==
  /\ Fresh
  /\ Dealt
  /\ c1 # c2
  /\ isDouble(CardOf(c1), CardOf(c2))
  /\ Yields(applyDouble(state, Current(state).id, CardOf(c1), CardOf(c2)),
            Op("applyDouble", Current(state).id, c1, c2))

UAdvanceTurn(stepCount) ==
  /\ Fresh
  /\ Dealt
  /\ Yields(advanceTurn(state, stepCount), Op("advanceTurn", 0, stepCount, 0))

UCheckRoundOver ==
  /\ Fresh
  /\ Dealt
  /\ Yields(checkRoundOver(state), Op("checkRoundOver", 0, 0, 0))

UApplyDragonDeclaration(sym) ==
  /\ Fresh
  /\ Dealt
  /\ Yields(applyDragonDeclaration(state, SYMBOLS[sym]),
            Op("applyDragonDeclaration", Current(state).id, sym, 0))

UApplyPeacockDeclaration(col) ==
  /\ Fresh
  /\ Dealt
  /\ Yields(applyPeacockDeclaration(state, COLORS[col]),
            Op("applyPeacockDeclaration", Current(state).id, col, 0))

UDrawCards(pid, count, k) ==
  /\ Fresh
  /\ Dealt
  /\ Yields(drawCards(state, pid, count, k), Op("drawCards", pid, count, k))

UStartRound(k) ==
  /\ Fresh
  /\ Yields(startRound(state, k), Op("startRound", 0, k, 0))

UBuildClientState(observer) ==
  /\ Fresh
  /\ Answers(Op("buildClientState", observer, 0, 0),
             buildClientState(state, observer))

\* isDouble(card1, card2) && canPlay(card1, state), as play_double and the
\* bot evaluate it, with canPlay of the second card beside it.
UIsDouble(c1, c2) ==
  /\ Fresh
  /\ Dealt
  /\ Answers(Op("isDouble", 0, c1, c2),
             [match |-> isDouble(CardOf(c1), CardOf(c2)),
              first |-> canPlay(CardOf(c1), state),
              second |-> canPlay(CardOf(c2), state)])

\* The cards of the deck that isDouble pairs with c1.
Doubling(c1) == {c2 \in DeckIds : isDouble(CardOf(c1), CardOf(c2))}

UnitInit ==
  /\ state \in UnitStates
  /\ timers = NoTimers
  /\ last = Op("init", 0, 0, 0)
  /\ steps = 0

UnitNext ==
  \/ \E c \in Once(DeckIds \ PileSet(state)) : UCanPlay(c)
  \/ \E a \in Once(DeckIds \ PileSet(state)) : UIsMatch(a)
  \/ \E c \in Once(Loose(state)) : UApplyPlay(c)
  \/ \E c1, c2 \in Once(Loose(state)) : UApplyDouble(c1, c2)
  \/ \E stepCount \in Once(1..MaxAdvance) : UAdvanceTurn(stepCount)
  \/ UCheckRoundOver
  \/ \E sym \in Once(1..Len(SYMBOLS)) : UApplyDragonDeclaration(sym)
  \/ \E col \in Once(1..Len(COLORS)) : UApplyPeacockDeclaration(col)
  \/ \E pid \in Once(Seated(state)), count \in 1..MaxDraw,
        k \in 1..NumShuffles : UDrawCards(pid, count, k)
  \/ \E k \in Once((1..NumShuffles) \cup {DealCut}) : UStartRound(k)
  \/ \E observer \in Once(Seated(state) \cup {Spectator}) :
       UBuildClientState(observer)
  \/ \E c1 \in Once(DeckIds \ PileSet(state)) :
       \E c2 \in Doubling(c1) \ PileSet(state) : UIsDouble(c1, c2)

SpecUnit == UnitInit /\ [][UnitNext]_vars

\* ------------------------------------------------- the bot, state by state

\* Hands a bot may hold: a pair in front of a single card, behind it, alone,
\* two pairs, Wasps, Dragons, cards of one colour.
BotHands ==
  {<<14, 13, 2>>, <<2, 14, 13>>, <<14, 13>>, <<14, 13, 22, 21>>,
   <<38, 2, 37>>, <<2, 40, 6>>, <<56, 55, 2>>, <<2>>, <<20, 26, 32>>}

BotTops(hand) == {top \in TopChoices : \A i \in 1..Len(hand) : hand[i] # top}

\* After a Wasp a penalty may stand; after a Power card the declaration is
\* awaited or made.
BotTables(top) ==
  IF CardOf(top).kind = "power"
    THEN {[pending |-> 0, waiting |-> TRUE, decl |-> NoDecl]}
         \cup {[pending |-> 0, waiting |-> FALSE, decl |-> decl] : decl \in DeclChoices}
  ELSE IF CardOf(top).kind = "command" /\ CardOf(top).command = "wasp"
    THEN {[pending |-> pending, waiting |-> FALSE, decl |-> NoDecl] :
            pending \in {0, 2, 4}}
  ELSE {[pending |-> 0, waiting |-> FALSE, decl |-> NoDecl]}

\* A bot at seat 1 to act against a player holding two cards.
botState(hand, top, table, drawn) ==
  LET hands == [i \in 1..MaxPlayers |-> IF i = 1 THEN hand ELSE UnitHand(i)]
      s == unitState(2, hands, NoScores, top, 0, "cw", table.pending, table.decl)
  IN [s EXCEPT !.players[1].isBot = TRUE,
               !.waitingForDeclaration = table.waiting,
               !.drawnThisTurn = drawn]

BotStates ==
  UNION {UNION {{botState(hand, top, table, drawn) :
                   table \in BotTables(top), drawn \in BOOLEAN} :
                top \in BotTops(hand)} : hand \in BotHands}

Strangers(s) == {Len(s.players) + 1}

\* computeBotAction(room.state, bot.id) in executeBotTurn.
BComputeBotAction(botId, r) ==
  /\ Fresh
  /\ Answers(Op("computeBotAction", botId, r, 0), computeBotAction(state, botId, r))

BotInit ==
  /\ state \in BotStates
  /\ timers = NoTimers
  /\ last = Op("init", 0, 0, 0)
  /\ steps = 0

BotNext ==
  \E botId \in Once(Seated(state) \cup Strangers(state)), r \in BotDraws(state) :
    BComputeBotAction(botId, r)

SpecBot == BotInit /\ [][BotNext]_vars

\* ------------------------------------------------------------------ claims

RECURSIVE HandTotal(_)
HandTotal(players) ==
  IF players = <<>> THEN 0 ELSE Len(Head(players).hand) + HandTotal(Tail(players))

CardTotal(s) == HandTotal(s.players) + Len(s.drawPile) + Len(s.playPile)

\* C1: once a round has been started, the players' hands, the draw pile and
\* the discard pile together hold exactly 62 cards after every accepted
\* operation.
CardCountConserved == state.phase # "lobby" => CardTotal(state) = DeckSize

\* A draw that needed more cards than the draw pile held, so that the discard
\* pile was shuffled back under its top card, has left 62 cards.
RefilledDraw ==
  /\ last.op = "draw_card"
  /\ last.b < last.a
  /\ Len(state.playPile) = 1
  /\ Len(state.drawPile) > 0
  /\ CardTotal(state) = DeckSize

\* idx moved k seats in the direction, by modular arithmetic.
StepTo(idx, direction, n, k) ==
  IF direction = "cw" THEN (idx + k) % n ELSE (idx - k) % n

CountKind(hand, kind) ==
  Cardinality({i \in 1..Len(hand) : CardOf(hand[i]).kind = kind})

\* 5 per Basic, 15 per Command, 25 per Power card.
HandPoints(hand) ==
  (5 * CountKind(hand, "basic")) + (15 * CountKind(hand, "command"))
    + (25 * CountKind(hand, "power"))

Seats(s) == 1..Len(s.players)

\* C2: when some player has an empty hand, checkRoundOver leaves the winner's
\* score unchanged, adds to every other player's score the points of the
\* cards in that player's hand, names the winner in roundWinnerId and sets
\* the phase to game_over iff some updated score is at least targetScore,
\* to round_over otherwise; with no empty hand the state is returned
\* unchanged.
CheckRoundOverScores ==
  [][last'.op = "checkRoundOver" =>
       IF \A j \in Seats(state) : state.players[j].hand # <<>>
         THEN state' = state
         ELSE \E w \in Seats(state) :
                /\ state.players[w].hand = <<>>
                /\ state'.roundWinnerId = state.players[w].id
                /\ state'.players[w] = state.players[w]
                /\ \A j \in Seats(state) \ {w} :
                     state'.players[j] =
                       [state.players[j] EXCEPT
                          !.score = @ + HandPoints(state.players[j].hand)]
                /\ state'.phase =
                     (IF \E j \in Seats(state) :
                           state'.players[j].score >= state.targetScore
                        THEN "game_over" ELSE "round_over")
                /\ state' = [state EXCEPT !.players = state'.players,
                                          !.phase = state'.phase,
                                          !.roundWinnerId = state'.roundWinnerId]]_vars

\* A round has ended the game with the highest score exactly at the target.
GameOverAtTarget ==
  /\ last.op = "checkRoundOver"
  /\ state.phase = "game_over"
  /\ \A j \in Seats(state) : state.players[j].score <= state.targetScore
  /\ \E j \in Seats(state) :
       /\ state.players[j].score = state.targetScore
       /\ state.players[j].id # state.roundWinnerId

\* Everything applyPlay and applyDouble leave alone.
RestUnchanged(s, s2) ==
  /\ s2.players = s.players
  /\ s2.drawPile = s.drawPile
  /\ s2.phase = s.phase
  /\ s2.targetScore = s.targetScore
  /\ s2.roundWinnerId = s.roundWinnerId
  /\ s2.matchWindowOpen = s.matchWindowOpen

Moved(s, s2, k) ==
  s2.currentPlayerIndex =
    StepTo(s.currentPlayerIndex, s2.direction, NumPlayers(s), k)

\* C3: applyPlay puts the card on top of the discard pile; then a Basic card
\* advances the turn one step; a Wasp adds 2 to pendingDrawCount, whatever it
\* was, and advances one step; a Frog advances two steps and changes nothing
\* but the discard pile, the player to act and the declarations placing a
\* card clears; a Crab reverses the direction and advances one step in the
\* new direction.
ApplyPlayByKind ==
  [][last'.op = "applyPlay" =>
       LET card == CardOf(last'.a)
       IN /\ state'.playPile = Append(state.playPile, card.id)
          /\ RestUnchanged(state, state')
          /\ card.kind = "basic" =>
               /\ Moved(state, state', 1)
               /\ state'.direction = state.direction
               /\ state'.pendingDrawCount = state.pendingDrawCount
               /\ state'.waitingForDeclaration = state.waitingForDeclaration
          /\ card.command = "wasp" =>
               /\ state'.pendingDrawCount = state.pendingDrawCount + 2
               /\ Moved(state, state', 1)
               /\ state'.direction = state.direction
          /\ card.command = "frog" =>
               state' = [state EXCEPT
                           !.playPile = Append(@, card.id),
                           !.declaredSymbol = None,
                           !.declaredColor = None,
                           !.currentPlayerIndex =
                              StepTo(@, state.direction, NumPlayers(state), 2)]
          /\ card.command = "crab" =>
               /\ state'.direction # state.direction
               /\ state'.direction \in {"cw", "ccw"}
               /\ Moved(state, state', 1)
               /\ state'.pendingDrawCount = state.pendingDrawCount]_vars

\* A Wasp played onto a standing penalty of 2 has made it 4.
WaspStacked ==
  /\ last.op = "applyPlay"
  /\ CardOf(last.a).command = "wasp"
  /\ state.pendingDrawCount = 4
  /\ Top(state).id = last.a

\* C4: applyDouble puts card1 then card2 on the discard pile and applies
\* card2 amplified: a double Wasp adds 4 to pendingDrawCount and advances one
\* step; a double Frog advances three steps (from seat 0 of four, clockwise,
\* to seat 3); a double Crab keeps the direction and advances one step; a
\* double Basic advances one step; a double Power sets waitingForDeclaration
\* and does not advance.
ApplyDoubleAmplified ==
  [][last'.op = "applyDouble" =>
       LET card1 == CardOf(last'.a)
           card2 == CardOf(last'.b)
       IN /\ state'.playPile = Append(Append(state.playPile, card1.id), card2.id)
          /\ RestUnchanged(state, state')
          /\ state'.direction = state.direction
          /\ card2.command = "wasp" =>
               /\ state'.pendingDrawCount = state.pendingDrawCount + 4
               /\ Moved(state, state', 1)
          /\ card2.command = "frog" =>
               /\ Moved(state, state', 3)
               /\ state'.pendingDrawCount = state.pendingDrawCount
               /\ (NumPlayers(state) = 4 /\ state.currentPlayerIndex = 0
                     /\ state.direction = "cw") => state'.currentPlayerIndex = 3
          /\ card2.command = "crab" =>
               /\ Moved(state, state', 1)
               /\ state'.pendingDrawCount = state.pendingDrawCount
          /\ card2.kind = "basic" =>
               /\ Moved(state, state', 1)
               /\ state'.pendingDrawCount = state.pendingDrawCount
               /\ state'.waitingForDeclaration = state.waitingForDeclaration
          /\ card2.kind = "power" =>
               /\ state'.waitingForDeclaration
               /\ state'.currentPlayerIndex = state.currentPlayerIndex
               /\ state'.pendingDrawCount = state.pendingDrawCount]_vars

\* A double Frog among four players, clockwise, has brought the turn to
\* seat 3.
DoubleFrogToSeatThree ==
  /\ last.op = "applyDouble"
  /\ CardOf(last.a).command = "frog"
  /\ CardOf(last.b).command = "frog"
  /\ NumPlayers(state) = 4
  /\ state.direction = "cw"
  /\ state.currentPlayerIndex = 3
  /\ SubSeq(state.playPile, Len(state.playPile) - 1, Len(state.playPile))
       = <<last.a, last.b>>

IsWasp(card) == card.kind = "command" /\ card.command = "wasp"

\* C5: with a non-empty discard pile and pendingDrawCount > 0, canPlay
\* accepts a card iff it is a Wasp, whatever its colour, the top card and
\* the declaration standing.
OnlyWaspUnderPenalty ==
  (last.op = "canPlay" /\ state.playPile # <<>> /\ state.pendingDrawCount > 0)
    => (last.res <=> IsWasp(CardOf(last.a)))

\* Under a penalty and a declared colour, a Wasp of another colour than the
\* top card and the declaration has been accepted.
WaspAcceptedUnderPenalty ==
  /\ last.op = "canPlay"
  /\ state.pendingDrawCount > 0
  /\ state.declaredColor # None
  /\ IsWasp(CardOf(last.a))
  /\ CardOf(last.a).color # state.declaredColor
  /\ CardOf(last.a).color # Top(state).color
  /\ last.res

IsPower(card, power) == card.kind = "power" /\ card.power = power

\* C6: with pendingDrawCount = 0, canPlay accepts a Dragon iff the top card
\* is not a Peacock and a Peacock iff the top card is not a Dragon, whatever
\* declaration is standing.
PowerOnPower ==
  (last.op = "canPlay" /\ state.playPile # <<>> /\ state.pendingDrawCount = 0)
    => /\ IsPower(CardOf(last.a), "dragon")
            => (last.res <=> ~IsPower(Top(state), "peacock"))
       /\ IsPower(CardOf(last.a), "peacock")
            => (last.res <=> ~IsPower(Top(state), "dragon"))

\* A Dragon has been rejected on a Peacock while a colour stands declared.
DragonRejectedOnPeacock ==
  /\ last.op = "canPlay"
  /\ state.pendingDrawCount = 0
  /\ state.declaredColor # None
  /\ IsPower(CardOf(last.a), "dragon")
  /\ IsPower(Top(state), "peacock")
  /\ ~last.res

ActiveCardId(s) ==
  LET at == {i \in 1..Len(s.playPile) : CardOf(s.playPile[i]).kind # "power"}
  IN IF at = {} THEN Null
     ELSE s.playPile[CHOOSE i \in at : \A j \in at : j <= i]

\* Colour, symbol and command of the most recently played coloured card.
ActiveOf(s, field) ==
  IF ActiveCardId(s) = Null THEN None
  ELSE IF field = "color" THEN CardOf(ActiveCardId(s)).color
  ELSE IF field = "symbol" THEN CardOf(ActiveCardId(s)).symbol
  ELSE CardOf(ActiveCardId(s)).command

Agrees(a, b) == a # None /\ a = b

\* C8: a symbol standing declared after a Dragon, canPlay accepts a Basic
\* card iff its symbol is the declared one or its colour is the active
\* colour; a colour standing declared after a Peacock, canPlay accepts a
\* card that is no Power card iff its colour is the declared one or its
\* symbol or command is the active one.  Stated of the cards in the hand of
\* the player to act.
DeclarationEscape ==
  (/\ state.phase = "playing"
   /\ ~state.waitingForDeclaration
   /\ state.playPile # <<>>
   /\ state.pendingDrawCount = 0)
    => \A c \in HandSet(state, Current(state).id) :
         LET card == CardOf(c)
         IN /\ (/\ state.declaredSymbol # None
                /\ state.declaredColor = None
                /\ IsPower(Top(state), "dragon")
                /\ card.kind = "basic")
                 => (canPlay(card, state) <=>
                       \/ card.symbol = state.declaredSymbol
                       \/ Agrees(card.color, ActiveOf(state, "color")))
            /\ (/\ state.declaredColor # None
                /\ state.declaredSymbol = None
                /\ IsPower(Top(state), "peacock")
                /\ card.kind # "power")
                 => (canPlay(card, state) <=>
                       \/ card.color = state.declaredColor
                       \/ Agrees(card.symbol, ActiveOf(state, "symbol"))
                       \/ Agrees(card.command, ActiveOf(state, "command")))

\* C9: isMatch(a, b) iff both are Basic with the same colour and symbol, or
\* both are Command with the same colour and command, or both are Power with
\* the same power and pair; in either order of the arguments.
IsMatchExact ==
  last.op = "isMatch" =>
    LET a == CardOf(last.a)
        b == CardOf(last.b)
        same == \/ a.kind = "basic" /\ b.kind = "basic"
                     /\ a.color = b.color /\ a.symbol = b.symbol
                \/ a.kind = "command" /\ b.kind = "command"
                     /\ a.color = b.color /\ a.command = b.command
                \/ a.kind = "power" /\ b.kind = "power"
                     /\ a.power = b.power /\ a.pair = b.pair
    IN /\ last.res <=> same
       /\ isMatch(b, a) <=> same

\* Two Dragons of different pairs have been found not to match.
OtherPairNoMatch ==
  /\ last.op = "isMatch"
  /\ IsPower(CardOf(last.a), "dragon")
  /\ IsPower(CardOf(last.b), "dragon")
  /\ CardOf(last.a).pair # CardOf(last.b).pair
  /\ ~last.res

\* C10: advanceTurn(state, steps) sets currentPlayerIndex to (index + steps)
\* mod n clockwise and to (index - steps) mod n counter-clockwise, which lies
\* in 0..n-1, and changes neither the direction nor the hands nor the piles.
AdvanceTurnModular ==
  [][last'.op = "advanceTurn" =>
       LET n == NumPlayers(state)
           idx == state.currentPlayerIndex
       IN /\ state'.currentPlayerIndex =
               (IF state.direction = "cw" THEN (idx + last'.a) % n
                                          ELSE (idx - last'.a) % n)
          /\ state'.currentPlayerIndex \in 0..(n - 1)
          /\ state'.direction = state.direction
          /\ state'.players = state.players
          /\ state'.drawPile = state.drawPile
          /\ state'.playPile = state.playPile]_vars

\* Three steps counter-clockwise from seat 1 of four have wrapped to seat 2.
WrappedCounterClockwise ==
  /\ last.op = "advanceTurn"
  /\ last.a = 3
  /\ state.direction = "ccw"
  /\ NumPlayers(state) = 4
  /\ state.currentPlayerIndex = 2
  /\ state.pendingDrawCount = 2

\* Hands, piles, direction and pending penalty are the same in s and s2.
TableKept(s, s2) ==
  /\ s2.players = s.players
  /\ s2.drawPile = s.drawPile
  /\ s2.playPile = s.playPile
  /\ s2.direction = s.direction
  /\ s2.pendingDrawCount = s.pendingDrawCount

\* C11: applyDragonDeclaration sets declaredSymbol to the symbol, clears
\* declaredColor and waitingForDeclaration and advances the turn one step;
\* applyPeacockDeclaration does the same with declaredColor set and
\* declaredSymbol cleared; neither changes hands, piles, direction or
\* pendingDrawCount.
DeclarationApplied ==
  [][/\ last'.op = "applyDragonDeclaration" =>
          /\ state'.declaredSymbol = SYMBOLS[last'.a]
          /\ state'.declaredColor = None
          /\ ~state'.waitingForDeclaration
          /\ Moved(state, state', 1)
          /\ TableKept(state, state')
     /\ last'.op = "applyPeacockDeclaration" =>
          /\ state'.declaredColor = COLORS[last'.a]
          /\ state'.declaredSymbol = None
          /\ ~state'.waitingForDeclaration
          /\ Moved(state, state', 1)
          /\ TableKept(state, state')]_vars

\* A symbol has been declared on a Dragon by the player at seat 0, counter-
\* clockwise, and the turn has wrapped to the last seat.
SymbolDeclaredWrapped ==
  /\ last.op = "applyDragonDeclaration"
  /\ last.p = 1
  /\ IsPower(Top(state), "dragon")
  /\ state.declaredSymbol = SYMBOLS[last.a]
  /\ state.declaredColor = None
  /\ ~state.waitingForDeclaration
  /\ state.direction = "ccw"
  /\ NumPlayers(state) > 2
  /\ state.currentPlayerIndex = NumPlayers(state) - 1

SeqSet(arr) == {arr[i] : i \in 1..Len(arr)}

TurnIntents ==
  {"play_card", "play_double", "draw_card", "pass", "match_card",
   "declare_symbol", "declare_color"}

\* C13: while waitingForDeclaration is true, the turn pointer does not move
\* and a play-card, play-double, draw, pass, match-card or declaration
\* changes the game state only if it is the declaration sent by the player
\* to act.
OnlyDeclarerDeclares ==
  [][(state.waitingForDeclaration /\ last'.op \in TurnIntents /\ state' # state)
       => /\ last'.op \in {"declare_symbol", "declare_color"}
          /\ last'.p = Current(state).id]_vars

\* C14: declaredSymbol and declaredColor are both cleared whenever a card is
\* placed on the discard pile: by a single play, a double play or an
\* out-of-turn match.
PlacingClearsDeclaration ==
  [][(last'.op \in {"play_card", "play_double", "match_card"} /\ state' # state)
       => /\ Top(state').id = last'.a \/ Top(state').id = last'.b
          /\ state'.declaredSymbol = None
          /\ state'.declaredColor = None]_vars


\* C15: a match_card message changes the state only when the match window
\* is open, the sender is a seated player other than the current one, the
\* card is in the sender's hand and it is an identical twin of the top card.
MatchOnlyInWindow ==
  [][(last'.op = "match_card" /\ state' # state)
       => /\ state.matchWindowOpen
          /\ last'.p \in Seated(state)
          /\ last'.p # Current(state).id
          /\ last'.a \in HandSet(state, last'.p)
          /\ state.playPile # <<>>
          /\ isMatch(CardOf(last'.a), Top(state))]_vars


\* C16: after an accepted match with a card that is no Wasp, the card has
\* left the matcher's hand and is the new top card, the player whose turn it
\* was holds one card more (none more only when no card lies outside the
\* hands but the top card), and the match window is closed.
MatchPenalised ==
  [][(last'.op = "match_card" /\ state' # state /\ ~IsWasp(CardOf(last'.a)))
       => LET matched == Current(state).id
              spare == Len(state.drawPile) + Len(state.playPile) - 1
          IN /\ last'.a \notin HandSet(state', last'.p)
             /\ Len(HandOf(state', last'.p)) = Len(HandOf(state, last'.p)) - 1
             /\ Top(state').id = last'.a
             /\ Len(HandOf(state', matched))
                  = Len(HandOf(state, matched)) + (IF spare >= 1 THEN 1 ELSE 0)
             /\ ~state'.matchWindowOpen]_vars

\* A Frog has been matched out of turn: it lies on top and the window is
\* closed.
FrogMatched ==
  /\ last.op = "match_card"
  /\ TagOf(CardOf(last.a)) = "frog"
  /\ Top(state).id = last.a
  /\ ~state.matchWindowOpen


\* C17: an accepted match makes the matcher the player to act and then
\* applies the matched card's effect: after a Basic card the turn is one
\* step past the matcher; after a Frog it is two steps past the matcher;
\* after a Crab the direction is reversed and the turn is one step past the
\* matcher in the new direction; after a Power card the matcher is the
\* player to act and a declaration is awaited.
MatchAppliesEffect ==
  [][(last'.op = "match_card" /\ state' # state)
       => LET n == NumPlayers(state)
              matcherIndex == IndexOfPlayer(state, last'.p) - 1
              card == CardOf(last'.a)
          IN /\ card.kind = "basic" =>
                  /\ state'.direction = state.direction
                  /\ state'.currentPlayerIndex
                       = StepTo(matcherIndex, state.direction, n, 1)
             /\ card.command = "frog" =>
                  /\ state'.direction = state.direction
                  /\ state'.currentPlayerIndex
                       = StepTo(matcherIndex, state.direction, n, 2)
             /\ card.command = "crab" =>
                  /\ state'.direction # state.direction
                  /\ state'.currentPlayerIndex
                       = StepTo(matcherIndex, state'.direction, n, 1)
             /\ card.kind = "power" =>
                  /\ state'.waitingForDeclaration
                  /\ state'.currentPlayerIndex = matcherIndex]_vars


\* What C18 says of every accepted match with a Wasp but for the window: the
\* player whose turn it was draws nothing, pendingDrawCount grows by 2 and
\* the turn goes to the player one step past the matcher.
WaspMatchStacks(s, s2, pid) ==
  /\ HandOf(s2, Current(s).id) = HandOf(s, Current(s).id)
  /\ s2.drawPile = s.drawPile
  /\ s2.pendingDrawCount = s.pendingDrawCount + 2
  /\ s2.direction = s.direction
  /\ s2.currentPlayerIndex
       = StepTo(IndexOfPlayer(s, pid) - 1, s.direction, NumPlayers(s), 1)

\* C18 as stated: after an accepted match with a Wasp the player whose turn
\* it was has drawn nothing, pendingDrawCount has grown by 2, the turn is
\* one step past the matcher and matchWindowOpen is false.
WaspMatchClosesWindow ==
  [][(last'.op = "match_card" /\ state' # state /\ IsWasp(CardOf(last'.a)))
       => /\ WaspMatchStacks(state, state', last'.p)
          /\ ~state'.matchWindowOpen]_vars

\* C18 amended: as above, but the window closed by the match is followed at
\* once by a new window for the Wasp just placed, so matchWindowOpen is
\* true after the match and a timer is registered, unless the match ended
\* the round.
WaspMatchReopensWindow ==
  [][(last'.op = "match_card" /\ state' # state /\ IsWasp(CardOf(last'.a)))
       => /\ WaspMatchStacks(state, state', last'.p)
          /\ state'.matchWindowOpen = (state'.phase = "playing")
          /\ timers'.registered = (state'.phase = "playing")]_vars

\* A Wasp has been matched onto a Wasp: the penalty stands at 4 and a new
\* window is open.
WaspMatchedOnWasp ==
  /\ last.op = "match_card"
  /\ IsWasp(CardOf(last.a))
  /\ Top(state).id = last.a
  /\ state.pendingDrawCount = 4
  /\ state.matchWindowOpen


TimerSteps == {"match_timer", "orphan_timer"}

\* C19: a match and the window's timeout exclude each other: once a match
\* has been accepted and has left the window closed, no timeout runs
\* closeMatchWindow before another window is opened; and once a timeout has
\* run closeMatchWindow, a match_card message that follows changes nothing.
TimerXorMatch ==
  [][/\ (last.op = "match_card" /\ ~state.matchWindowOpen)
          => last'.op \notin TimerSteps
     /\ (last.op \in TimerSteps /\ last'.op = "match_card")
          => state' = state]_vars


\* C20: play_double is rejected for every pair of cards named by a player
\* who holds exactly two cards; every accepted double play started from a
\* hand of more than two cards, leaves the player with at least one card
\* and leaves the round in play with no winner.
NoGoingOutOnDouble ==
  /\ [](\A pid \in Seated(state) :
          Len(HandOf(state, pid)) = 2 =>
            \A c1, c2 \in HandSet(state, pid) : ~playDoubleOk(state, pid, c1, c2))
  /\ [][(last'.op = "play_double" /\ state' # state) =>
          /\ Len(HandOf(state, last'.p)) > 2
          /\ Len(HandOf(state', last'.p)) = Len(HandOf(state, last'.p)) - 2
          /\ Len(HandOf(state', last'.p)) >= 1
          /\ state'.phase = "playing"
          /\ state'.roundWinnerId = state.roundWinnerId]_vars

\* A double has been played from a hand of three: one card is left.
DoubleLeftOneCard ==
  /\ last.op = "play_double"
  /\ Len(HandOf(state, last.p)) = 1
  /\ Top(state).id = last.b


TurnMoves == {"play_card", "play_double", "draw_card", "pass"}

\* C21: a play_card, play_double, draw_card or pass message changes the
\* state only if its sender is the player to act and, for a play, the card
\* named is in the sender's hand and canPlay accepts it, and for a double
\* both cards are in the hand and isMatch each other; any other such
\* message leaves hands, piles, turn, direction, penalty, flags and scores
\* as they were.
RejectedBeforeMutation ==
  [][(last'.op \in TurnMoves /\ state' # state)
       => /\ Current(state).id = last'.p
          /\ last'.op \in {"play_card", "play_double"} =>
               /\ InHand(state, last'.p, last'.a)
               /\ canPlay(CardOf(last'.a), state)
          /\ last'.op = "play_double" =>
               /\ InHand(state, last'.p, last'.b)
               /\ isMatch(CardOf(last'.a), CardOf(last'.b))]_vars

\* A card has been played by a player who holds a card that canPlay rejects
\* on the pile the card was played onto.
PlayedBesideUnplayable ==
  /\ last.op = "play_card"
  /\ Top(state).id = last.a
  /\ \E c \in HandSet(state, last.p) :
       ~canPlay(CardOf(c), [state EXCEPT !.playPile = SubSeq(@, 1, Len(@) - 1)])


RoundIntents ==
  TurnMoves \cup {"match_card", "declare_symbol", "declare_color",
                  "challenge_last_card"}

\* The hands and scores of the players, in seat order.
HandsOf(s) == [i \in 1..Len(s.players) |-> s.players[i].hand]

ScoresOf(s) == [i \in 1..Len(s.players) |-> s.players[i].score]

\* C22: while the phase is lobby, round_over or game_over, no play_card,
\* play_double, draw_card, pass, match_card, declare_symbol, declare_color
\* or challenge_last_card message changes a hand, a pile, the player to
\* act, a score or the phase.
IdleOutsideRound ==
  [][(state.phase # "playing" /\ last'.op \in RoundIntents)
       => /\ HandsOf(state') = HandsOf(state)
          /\ ScoresOf(state') = ScoresOf(state)
          /\ state'.drawPile = state.drawPile
          /\ state'.playPile = state.playPile
          /\ state'.currentPlayerIndex = state.currentPlayerIndex
          /\ state'.phase = state.phase]_vars


\* C23: a pass message changes the state only if the player to act has
\* drawn a card during the turn.
PassOnlyAfterDraw ==
  [][(last'.op = "pass" /\ state' # state) => state.drawnThisTurn]_vars


\* C24: when a message passes the turn to another player during a round,
\* drawnThisTurn is false; and a draw_card message with no penalty pending
\* changes the state only if the player to act has not drawn yet during
\* the turn.
DrawnResetOnTurn ==
  [][/\ (/\ state.phase = "playing"
          /\ state'.phase = "playing"
          /\ last'.op \in RoundIntents
          /\ state'.currentPlayerIndex # state.currentPlayerIndex)
          => ~state'.drawnThisTurn
     /\ (last'.op = "draw_card" /\ state' # state /\ state.pendingDrawCount = 0)
          => ~state.drawnThisTurn]_vars


\* Every card of the deck lies in exactly one hand or pile.
DeckDealt(s) ==
  /\ CardTotal(s) = DeckSize
  /\ \A c \in DeckIds :
       \/ c \in PileSet(s)
       \/ \E i \in 1..Len(s.drawPile) : s.drawPile[i] = c
       \/ \E j \in 1..Len(s.players) : \E i \in 1..Len(s.players[j].hand) :
            s.players[j].hand[i] = c

\* C26: startRound at a table of n deals 10 - n cards, but no fewer than 3
\* and no more than 7, to every player, puts one card that is no Power card
\* on the discard pile and the rest of the deck in the draw pile, sets the
\* phase to playing, the player to act to seat 0, the direction to
\* clockwise, the penalty to 0, waitingForDeclaration and matchWindowOpen to
\* false, clears both declarations and every announcedLastCard, and keeps
\* every score and the target score.
StartRoundDeals ==
  [][last'.op = "startRound" =>
       LET n == NumPlayers(state)
           dealt == IF 10 - n < 3 THEN 3 ELSE IF 10 - n > 7 THEN 7 ELSE 10 - n
       IN /\ NumPlayers(state') = n
          /\ \A i \in 1..n :
               /\ Len(state'.players[i].hand) = dealt
               /\ ~state'.players[i].announcedLastCard
               /\ state'.players[i].score = state.players[i].score
               /\ state'.players[i].id = state.players[i].id
          /\ Len(state'.playPile) = 1
          /\ Top(state').kind # "power"
          /\ Len(state'.drawPile) = DeckSize - n * dealt - 1
          /\ DeckDealt(state')
          /\ state'.phase = "playing"
          /\ state'.currentPlayerIndex = 0
          /\ state'.direction = "cw"
          /\ state'.pendingDrawCount = 0
          /\ ~state'.waitingForDeclaration
          /\ ~state'.matchWindowOpen
          /\ state'.declaredSymbol = None
          /\ state'.declaredColor = None
          /\ state'.targetScore = state.targetScore]_vars

\* A round started at a table of two whose scores stand, with seven cards
\* each and the Power cards that followed the dealt ones passed over into
\* the draw pile.
StartedPastPower ==
  /\ last.op = "startRound"
  /\ last.a = DealCut
  /\ NumPlayers(state) = 2
  /\ Len(state.players[1].hand) = 7
  /\ state.players[2].score = 2 * BasicPoints
  /\ CardOf(state.drawPile[1]).kind = "power"


\* The cards an observer is not shown, in one row: the hands of the other
\* players in seat order, the draw pile, the discard pile below its top.
RECURSIVE OtherHands(_, _)
OtherHands(players, observer) ==
  IF players = <<>> THEN <<>>
  ELSE (IF Head(players).id = observer THEN <<>> ELSE Head(players).hand)
         \o OtherHands(Tail(players), observer)

Hidden(s, observer) ==
  OtherHands(s.players, observer) \o s.drawPile
    \o SubSeq(s.playPile, 1, Len(s.playPile) - 1)

\* The state with the row of hidden cards replaced by `row`, every hand
\* and pile keeping its size.
RECURSIVE DealRow(_, _, _)
DealRow(players, observer, row) ==
  IF players = <<>> THEN <<>>
  ELSE IF Head(players).id = observer
    THEN <<Head(players)>> \o DealRow(Tail(players), observer, row)
    ELSE <<[Head(players) EXCEPT !.hand = SubSeq(row, 1, Len(@))]>>
           \o DealRow(Tail(players), observer,
                      SubSeqFrom(row, Len(Head(players).hand) + 1))

WithHidden(s, observer, row) ==
  LET held == Len(OtherHands(s.players, observer))
      drawn == Len(s.drawPile)
  IN [s EXCEPT
        !.players = DealRow(@, observer, row),
        !.drawPile = SubSeq(row, held + 1, held + drawn),
        !.playPile = IF @ = <<>> THEN @
                     ELSE Append(SubSeqFrom(row, held + drawn + 1), @[Len(@)])]

\* States that differ from s in nothing but which hidden card lies where
\* and which cards are in play at all: the hidden row rotated, reversed, or
\* with its first card exchanged for one that is not in play.
Variants(s, observer) ==
  LET row == Hidden(s, observer)
  IN IF row = <<>> THEN {s}
     ELSE {WithHidden(s, observer, Rotate(row, r)) : r \in 1..Len(row)}
          \cup {WithHidden(s, observer, Reverse(row))}
          \cup {WithHidden(s, observer, <<c>> \o Tail(row)) : c \in Loose(s)}

\* C27: the view built for an observer is the same for all states that
\* differ only in the cards of the other players' hands, in the draw pile
\* or in the discard pile below its top; it carries the observer's own hand
\* and no other, and for a spectator no hand at all.
ViewHidesOthers ==
  last.op = "buildClientState" =>
    /\ \A s2 \in Variants(state, last.p) :
         buildClientState(s2, last.p) = last.res
    /\ \A i \in 1..Len(state.players) :
         last.res.players[i].hand
           = IF state.players[i].id = last.p
               THEN [present |-> TRUE, cards |-> state.players[i].hand]
               ELSE [present |-> FALSE, cards |-> <<>>]
    /\ last.p = Spectator =>
         \A i \in 1..Len(state.players) : ~last.res.players[i].hand.present

\* The view of a seated player at a table of four has been built from a
\* state with an equal-view variant that differs in another player's hand.
ViewBuiltForSeatTwo ==
  /\ last.op = "buildClientState"
  /\ last.p = 2
  /\ NumPlayers(state) = 4
  /\ last.res.players[2].hand.cards = state.players[2].hand
  /\ \E s2 \in Variants(state, 2) : s2.players[4].hand # state.players[4].hand

Playable(s, hand) == {i \in 1..Len(hand) : canPlay(CardOf(hand[i]), s)}

Doubles(s, hand) ==
  {ij \in (1..Len(hand)) \X (1..Len(hand)) :
     /\ ij[1] < ij[2]
     /\ isMatch(CardOf(hand[ij[1]]), CardOf(hand[ij[2]]))
     /\ canPlay(CardOf(hand[ij[1]]), s)}

\* C28: computeBotAction answers with the first applicable action: a
\* declaration while one is awaited; under a penalty a held Wasp, else a
\* draw; with more than 2 cards and a matching pair whose first card is
\* playable, that pair as a double; else the first playable card; else a
\* draw when the bot has not drawn this turn; else a pass.  Every card it
\* names is held by the bot and satisfies canPlay.
BotActionOrdered ==
  (last.op = "computeBotAction" /\ last.p \in Seated(state)) =>
    LET s == state
        hand == HandOf(s, last.p)
        held == HandSet(s, last.p)
        act == last.res
        wasps == {i \in 1..Len(hand) : IsWasp(CardOf(hand[i]))}
        pairs == Doubles(s, hand)
        playable == Playable(s, hand)
        free == ~s.waitingForDeclaration /\ s.pendingDrawCount = 0
        doubling == free /\ Len(hand) > 2 /\ pairs # {}
    IN /\ s.waitingForDeclaration =>
            act.type \in {"declare_symbol", "declare_color"}
       /\ (~s.waitingForDeclaration /\ s.pendingDrawCount > 0) =>
            IF wasps # {}
              THEN act.type = "play_card" /\ act.a \in held /\ IsWasp(CardOf(act.a))
              ELSE act.type = "draw"
       /\ doubling =>
            /\ act.type = "play_double"
            /\ \E ij \in pairs : act.a = hand[ij[1]] /\ act.b = hand[ij[2]]
       /\ (free /\ ~doubling /\ playable # {}) =>
            /\ act.type = "play_card"
            /\ \E i \in playable : act.a = hand[i] /\ \A j \in playable : i <= j
       /\ (free /\ ~doubling /\ playable = {}) =>
            act.type = (IF s.drawnThisTurn THEN "pass" ELSE "draw")
       /\ act.type = "play_card" => act.a \in held /\ canPlay(CardOf(act.a), s)
       /\ act.type = "play_double" =>
            /\ act.a \in held /\ canPlay(CardOf(act.a), s)
            /\ act.b \in held /\ canPlay(CardOf(act.b), s)
            /\ act.a # act.b

\* A bot holding two pairs has doubled the second one, the first being
\* unplayable.
BotDoubledSecondPair ==
  /\ last.op = "computeBotAction"
  /\ last.res.type = "play_double"
  /\ last.res.a # HandOf(state, last.p)[1]
  /\ isMatch(CardOf(HandOf(state, last.p)[1]), CardOf(HandOf(state, last.p)[2]))

\* C29: in every state of a round in play the discard pile holds at least
\* one card.
DiscardNeverEmpty == state.phase = "playing" => state.playPile # <<>>

\* A draw has run the draw pile out and shuffled the discard pile back,
\* and the round goes on over the one card left on the discard pile.
RefillLeftTop ==
  /\ state.phase = "playing"
  /\ last.op = "draw_card"
  /\ last.b < last.a
  /\ Len(state.playPile) = 1

TurnAdvances == {"play_card", "play_double", "declare_symbol", "declare_color", "pass", "match_card"}

SomeoneActive(s) == \E i \in 1..Len(s.players) : isActive(s.players[i])

\* C25: a play, a double play, a declaration, a pass or a match that moves
\* the turn during a round leaves it, when some player is connected or a
\* bot, with a player who is connected or a bot.
TurnSkipsInactive ==
  [][(/\ last'.op \in TurnAdvances
      /\ state.phase = "playing"
      /\ state'.phase = "playing"
      /\ state'.currentPlayerIndex # state.currentPlayerIndex
      /\ SomeoneActive(state'))
       => isActive(Current(state'))]_vars

\* C30: while a round is in play, also after a player has disconnected,
\* reconnected or been removed at the end of the grace period, the hands of
\* the seated players, the draw pile and the discard pile hold 62 cards.
CardCountSurvivesRemoval == state.phase = "playing" => CardTotal(state) = DeckSize

\* C39: two cards that isMatch pairs are accepted or refused alike by
\* canPlay in every state, so that testing the first card of a double is
\* testing both.
DoubleSharesPlayability ==
  (last.op = "isDouble" /\ isMatch(CardOf(last.a), CardOf(last.b)))
    => /\ last.res.match
       /\ last.res.first = canPlay(CardOf(last.a), state)
       /\ last.res.second = canPlay(CardOf(last.b), state)
       /\ last.res.first = last.res.second

\* The two copies of a card have both been refused under a declared symbol.
TwinsRefusedAlike ==
  /\ last.op = "isDouble"
  /\ last.a # last.b
  /\ last.res.match
  /\ ~last.res.first
  /\ ~last.res.second
  /\ state.declaredSymbol # None

PhaseMoves ==
  {<<"lobby", "playing">>, <<"playing", "round_over">>,
   <<"playing", "game_over">>, <<"round_over", "playing">>}

\* C32: the phase changes only from lobby to playing, from playing to
\* round_over or game_over, and from round_over to playing on the host's
\* next_round; a game that is over stays over, and a round that is over
\* does not become a game that is over.
PhaseFollowsLifecycle ==
  [][/\ state'.phase # state.phase => <<state.phase, state'.phase>> \in PhaseMoves
     /\ (state.phase = "round_over" /\ state'.phase = "playing")
          => last'.op = "next_round"
     /\ state.phase = "game_over" => state'.phase = "game_over"]_vars

ActiveCount(s) == Cardinality({i \in 1..Len(s.players) : isActive(s.players[i])})

\* C31: when the grace period of a disconnected player expires, the player
\* is removed from players and the others stay as they were, the turn
\* pointer is a valid index and is still at the same player unless that
\* player is the one removed, and the phase is game_over if fewer than two
\* players who are connected or bots remain; a player who has reconnected
\* is not removed.
GraceRemovalKeepsTurn ==
  [][last'.op = "grace_timer"
       => /\ ~state.players[IndexOfPlayer(state, last'.p)].connected
          /\ state'.players = RemoveAt(state.players, IndexOfPlayer(state, last'.p))
          /\ state'.currentPlayerIndex >= 0
          /\ state'.currentPlayerIndex < Len(state'.players)
          /\ Current(state).id # last'.p => Current(state').id = Current(state).id
          /\ ActiveCount(state') < 2 => state'.phase = "game_over"
          /\ ActiveCount(state') >= 2 => state'.phase = state.phase]_vars

\* The cards a draw can reach: the draw pile and the discard pile below its
\* top card.
Drawable(s) == Len(s.drawPile) + Max(Len(s.playPile) - 1, 0)

\* C33: under a penalty of k cards a pass is refused, and the draw of the
\* player to act puts min(k, cards that can be drawn) cards in that player's
\* hand, sets pendingDrawCount to 0 and passes the turn to another player.
PenaltyDrawEndsTurn ==
  [][/\ (last'.op = "pass" /\ state' # state) => state.pendingDrawCount = 0
     /\ (last'.op = "draw_card" /\ state.pendingDrawCount > 0)
          => /\ Len(HandOf(state', last'.p))
                  = Len(HandOf(state, last'.p))
                      + Min(state.pendingDrawCount, Drawable(state))
             /\ state'.pendingDrawCount = 0
             /\ state'.currentPlayerIndex # state.currentPlayerIndex]_vars

\* C34: once a round has been scored (phase round_over or game_over), no
\* message and no timer changes a score until the next round is dealt.
ScoredOnce ==
  [][state.phase \in {"round_over", "game_over"}
       => ScoresOf(state') = ScoresOf(state)]_vars

\* The timeouts of openMatchWindow that have neither fired nor been cleared.
PendingTimers(tm) == (IF tm.registered THEN 1 ELSE 0) + tm.orphans

\* C35: at most one match-window timeout is pending in a room, and the
\* timeout of a window that has been followed by a newer window neither
\* closes the newer window nor clears its timeout.
TimerClosesOwnWindow ==
  /\ [](PendingTimers(timers) <= 1)
  /\ [][last'.op = "orphan_timer"
          => /\ state'.matchWindowOpen = state.matchWindowOpen
             /\ timers'.registered = timers.registered]_vars

BotToAct(s) ==
  /\ s.phase = "playing"
  /\ s.currentPlayerIndex < Len(s.players)
  /\ Current(s).isBot

BotAt(i) == BotToAct(state) /\ state.currentPlayerIndex = i

\* C40: while a round is in play and the player to act is a bot, a timeout
\* is pending that runs the bot's turn or schedules it; and, the timeouts
\* expiring, no bot stays the player to act for ever.
BotNeverStalls ==
  /\ [](BotToAct(state) => (timers.bots > 0 \/ PendingTimers(timers) > 0))
  /\ \A i \in 0..MaxPlayers : []<>(~BotAt(i))

\* A bot has taken its turn and left the turn with a human player.
BotHandedOver ==
  /\ last.op = "bot_turn"
  /\ last.res
  /\ state.phase = "playing"
  /\ ~BotToAct(state)
  /\ timers.bots = 0

\* C36: while a round is in play every seated player holds at least one
\* card: a play that empties a hand ends the round in the same handler.
HandsHeldInPlay ==
  state.phase = "playing" =>
    \A i \in 1..Len(state.players) : Len(state.players[i].hand) >= 1

\* A player has played down to one card and the round goes on.
DownToOneCard ==
  /\ last.op = "play_card"
  /\ state.phase = "playing"
  /\ state.playPile # <<>>
  /\ state.playPile[Len(state.playPile)] = last.a
  /\ Len(HandOf(state, last.p)) = 1

\* C37: the pending penalty is an even number, never negative; while it is
\* positive the top card of the play pile is a Wasp and no declaration is
\* awaited.
PenaltyUnderWasp ==
  /\ state.pendingDrawCount >= 0
  /\ state.pendingDrawCount % 2 = 0
  /\ state.pendingDrawCount > 0 =>
        /\ state.playPile # <<>>
        /\ IsWasp(Top(state))
        /\ ~state.waitingForDeclaration

\* A Wasp has been played on a Wasp: the penalty stands at four.
WaspsStacked ==
  /\ last.op = "play_card"
  /\ state.phase = "playing"
  /\ state.pendingDrawCount = 4
  /\ state.playPile[Len(state.playPile)] = last.a

\* C38: a declared symbol and a declared colour are never set together; a
\* declared symbol stands on a Dragon and a declared colour on a Peacock;
\* while a declaration is awaited the top card is a Power card and neither
\* declaration is set.
DeclarationMatchesTop ==
  /\ ~(state.declaredSymbol # None /\ state.declaredColor # None)
  /\ state.declaredSymbol # None =>
        state.playPile # <<>> /\ IsPower(Top(state), "dragon")
  /\ state.declaredColor # None =>
        state.playPile # <<>> /\ IsPower(Top(state), "peacock")
  /\ state.waitingForDeclaration =>
        /\ state.playPile # <<>>
        /\ Top(state).kind = "power"
        /\ state.declaredSymbol = None
        /\ state.declaredColor = None

\* A symbol has been declared on a Dragon and the round goes on.
SymbolStandsOnDragon ==
  /\ last.op = "declare_symbol"
  /\ state.phase = "playing"
  /\ state.declaredSymbol # None
  /\ ~state.waitingForDeclaration
  /\ IsPower(Top(state), "dragon")

====
